---------------------------- MODULE Spec2Model ----------------------------
(***************************************************************************)
(* Event-news matching pipeline (pipeline/matching.py) and the news client *)
(* call it makes (newsapi/client.py).                                      *)
(*                                                                         *)
(* Text is modelled by TLA+ strings over the characters U+0000..U+00FF,    *)
(* with the classes Python 3 gives them (str.isspace, str.lower, and \w, \s *)
(* of a str pattern): Ch(s, i) is the i-th element of s, CharAt(s, i) the  *)
(* character that starts there.  Timestamps are integers counted in ticks, *)
(* TicksPerDay to the day.  An Optional value is a record with a has flag. *)
(* The clock `now` is read by get_time_window and again by every call of   *)
(* score_article; it may advance between two readings.                      *)
(***************************************************************************)
EXTENDS Integers, Sequences, FiniteSets, TLC

VARIABLES
    pc,           \* the function under execution, or how it ended
    text,         \* extract_key_terms: argument
    key_terms,    \* extract_key_terms: returned list
    event,        \* the Event argument
    max_terms,    \* build_news_query: argument
    title_terms,  \* build_news_query: local title_terms
    named_entities, \* build_news_query: local named_entities
    inserted,     \* build_news_query: entities inserted at the front, in insertion order
    terms,        \* build_news_query: local terms when the query is joined
    query,        \* build_news_query: returned string
    now,          \* the wall clock read by datetime.now()
    default_days_back, \* get_time_window: argument
    buffer_days,  \* get_time_window: argument
    from_date,    \* get_time_window: first component of the result
    to_date,      \* get_time_window: second component of the result
    max_articles, \* match_news_to_event: argument
    min_score,    \* match_news_to_event: argument
    query_terms,  \* match_news_to_event: local query_terms
    request,      \* the parameters search_everything sends
    search_calls, \* number of calls of client.search_everything
    error,        \* the exception the search raised, "None" if none
    logged,       \* whether the except clause printed the error
    articles,     \* match_news_to_event: local articles (the fetched list)
    scored,       \* match_news_to_event: local scored, before the filter
    result,       \* match_news_to_event: returned list
    article,      \* score_article: argument
    scored_article, \* score_article: returned ScoredArticle
    invocations,  \* concurrent match_news_to_event calls: the locals of each
    summarizer,   \* AISummarizer.summarize_event: the object's key, the arguments, the call and the outcome
    handler       \* a route handler of api/routes.py: its parameters, locals and what it did so far

vars == <<pc, text, key_terms, event, max_terms, title_terms, named_entities,
          inserted, terms, query, now, default_days_back, buffer_days,
          from_date, to_date, max_articles, min_score, query_terms, request,
          search_calls, error, logged, articles, scored, result,
          article, scored_article, invocations, summarizer, handler>>

-----------------------------------------------------------------------------
(* Characters and the str / re primitives the pipeline uses.               *)

Ch(s, i) == SubSeq(s, i, i)

UPPERCASE == "ABCDEFGHIJKLMNOPQRSTUVWXYZ"
LOWERCASE == "abcdefghijklmnopqrstuvwxyz"
DIGITS == "0123456789"
\* the cased letters of U+00C0..U+00FE, each capital above its small letter
UPPERCASE_LATIN1 == "ÀÁÂÃÄÅÆÇÈÉÊËÌÍÎÏÐÑÒÓÔÕÖØÙÚÛÜÝÞ"
LOWERCASE_LATIN1 == "àáâãäåæçèéêëìíîïðñòóôõöøùúûüýþ"
\* the other letters and numbers of U+0080..U+00FF: sharp s, y diaeresis,
\* the ordinal indicators, micro, superscript 2 3 1, the fractions
UNCASED_LATIN1 == "ßÿªºµ²³¹¼½¾"
\* the characters str.isspace() holds for: blank, \t, \n, U+000B, \f, \r,
\* U+001C..U+001F, and beyond ASCII U+0085 and U+00A0
WHITESPACE == " \t\n\f\r"
WHITESPACE_LATIN1 == " "

\* A character beyond ASCII is held in one element of a string, or in the
\* CharWidth elements of its UTF-8 form; LeadElems are the first elements
\* these forms have in U+0080..U+00FF.
CharWidth == Len(WHITESPACE_LATIN1) \div 2
LeadElems == {Ch(WHITESPACE_LATIN1, 1), Ch(UPPERCASE_LATIN1, 1)}

\* the number of elements of the character that starts at position i of s
CharLen(s, i) == IF Ch(s, i) \in LeadElems THEN CharWidth ELSE 1

\* s[i], the character that starts at position i
CharAt(s, i) == SubSeq(s, i, i + CharLen(s, i) - 1)

\* the character that ends at position i - 1 (i > 1)
CharBefore(s, i) ==
    IF i > CharWidth /\ Ch(s, i - CharWidth) \in LeadElems
    THEN SubSeq(s, i - CharWidth, i - 1)
    ELSE Ch(s, i - 1)

\* position i of s is inside a character that starts before it (the forms
\* of U+0080..U+00FF have two elements at most)
InsideChar(s, i) == CharWidth > 1 /\ i > 1 /\ Ch(s, i - 1) \in LeadElems

\* len(s): the number of characters
str_len(s) == Cardinality({i \in 1..Len(s) : ~InsideChar(s, i)})

\* the characters of a string of ASCII characters
CharsOf(s) == {Ch(s, i) : i \in 1..Len(s)}
\* the k-th character of a string of characters beyond ASCII, and all of them
WideChar(s, k) == SubSeq(s, (k - 1) * CharWidth + 1, k * CharWidth)
WideCharsOf(s) == {WideChar(s, k) : k \in 1..(Len(s) \div CharWidth)}

UpperChars == CharsOf(UPPERCASE)
LowerChars == CharsOf(LOWERCASE)
\* Unicode letters, numbers and the underscore
WordChars ==
    UpperChars \cup LowerChars \cup CharsOf(DIGITS) \cup {"_"}
        \cup WideCharsOf(UPPERCASE_LATIN1) \cup WideCharsOf(LOWERCASE_LATIN1)
        \cup WideCharsOf(UNCASED_LATIN1)
SpaceChars == CharsOf(WHITESPACE) \cup WideCharsOf(WHITESPACE_LATIN1)

\* [A-Z]
IsUpper(c) == c \in UpperChars
\* [a-z]
IsLower(c) == c \in LowerChars
\* \w  (of a str pattern: Unicode letters, numbers and the underscore)
IsWordChar(c) == c \in WordChars
\* \s, and the separators of str.split() and str.strip()
IsSpace(c) == c \in SpaceChars

\* the lower-case letter of each upper-case letter
LowerOf ==
    [c \in UpperChars \cup WideCharsOf(UPPERCASE_LATIN1) |->
        IF c \in UpperChars
        THEN Ch(LOWERCASE, CHOOSE i \in 1..Len(UPPERCASE) : Ch(UPPERCASE, i) = c)
        ELSE WideChar(LOWERCASE_LATIN1,
                      CHOOSE k \in 1..Len(UPPERCASE_LATIN1) :
                          WideChar(UPPERCASE_LATIN1, k) = c)]

\* str.lower() on one character
CharLower(c) == IF c \in DOMAIN LowerOf THEN LowerOf[c] ELSE c

RECURSIVE LowerFrom(_, _)
LowerFrom(s, i) ==
    IF i > Len(s) THEN ""
    ELSE (IF InsideChar(s, i) THEN "" ELSE CharLower(CharAt(s, i)))
         \o LowerFrom(s, i + 1)

\* str.lower()
str_lower(s) == LowerFrom(s, 1)

RECURSIVE SubPunctFrom(_, _)
SubPunctFrom(s, i) ==
    IF i > Len(s) THEN ""
    ELSE (IF InsideChar(s, i) THEN ""
          ELSE IF IsWordChar(CharAt(s, i)) \/ IsSpace(CharAt(s, i))
               THEN CharAt(s, i) ELSE " ")
         \o SubPunctFrom(s, i + 1)

\* re.sub(r'[^\w\s]', ' ', s)
re_sub_punct(s) == SubPunctFrom(s, 1)

RECURSIVE SplitQuotedFrom(_, _, _, _)
\* a scan that splits at whitespace outside quote marks only
SplitQuotedFrom(s, i, cur, quoted) ==
    IF i > Len(s)
    THEN (IF cur = "" THEN <<>> ELSE <<cur>>)
    ELSE IF InsideChar(s, i) THEN SplitQuotedFrom(s, i + 1, cur, quoted)
    ELSE IF IsSpace(CharAt(s, i)) /\ ~quoted
         THEN (IF cur = "" THEN <<>> ELSE <<cur>>) \o SplitQuotedFrom(s, i + 1, "", FALSE)
         ELSE SplitQuotedFrom(s, i + 1, cur \o CharAt(s, i),
                              IF Ch(s, i) = "\"" THEN ~quoted ELSE quoted)

\* faulty variant: a split that keeps a quoted phrase in one piece
str_split_quoted(s) == SplitQuotedFrom(s, 1, "", FALSE)

RECURSIVE SplitFrom(_, _, _)
\* the scan of str.split(): cur is the word being read from position i on
SplitFrom(s, i, cur) ==
    IF i > Len(s)
    THEN (IF cur = "" THEN <<>> ELSE <<cur>>)
    ELSE IF InsideChar(s, i) THEN SplitFrom(s, i + 1, cur)
    ELSE IF IsSpace(CharAt(s, i))
         THEN (IF cur = "" THEN <<>> ELSE <<cur>>) \o SplitFrom(s, i + 1, "")
         ELSE SplitFrom(s, i + 1, cur \o CharAt(s, i))

\* str.split() without arguments: the maximal runs of non-whitespace
str_split(s) == SplitFrom(s, 1, "")

RECURSIVE str_join(_, _)
\* sep.join(list)
str_join(sep, list) ==
    IF list = <<>> THEN ""
    ELSE IF Len(list) = 1 THEN list[1]
    ELSE list[1] \o sep \o str_join(sep, Tail(list))

\* sub in s  (substring test; the empty string is in every string)
Contains(s, sub) ==
    LET n == Len(sub)
    IN  \E i \in 1..(Len(s) - n + 1) : SubSeq(s, i, i + n - 1) = sub

\* x in list
InList(x, list) == \E i \in 1..Len(list) : list[i] = x

Min(a, b) == IF a <= b THEN a ELSE b
Max(a, b) == IF a >= b THEN a ELSE b

\* list[:n], Python slice semantics (a negative n counts from the end)
SliceTo(list, n) ==
    IF n >= 0 THEN SubSeq(list, 1, Min(n, Len(list)))
    ELSE SubSeq(list, 1, Max(Len(list) + n, 0))

-----------------------------------------------------------------------------
(* Module constants of pipeline/matching.py.                               *)

STOP_WORDS == {
    "the", "a", "an", "in", "on", "at", "to", "for", "of", "and", "or", "is",
    "are", "was", "were", "be", "been", "being", "will", "would", "could",
    "should", "may", "might", "can", "this", "that", "these", "those", "it",
    "its", "by", "from", "with", "as", "but", "if", "then", "than", "so",
    "what", "which", "who", "whom", "when", "where", "why", "how", "all",
    "each", "every", "both", "few", "more", "most", "other", "some", "such",
    "no", "not", "only", "own", "same", "too", "very", "just", "before",
    "after", "during", "while", "market", "resolve", "yes" }

\* def build_news_query(event, max_terms = 8)
DEFAULT_MAX_TERMS == 8
\* def get_time_window(event, default_days_back = 7, buffer_days = 2)
DEFAULT_DAYS_BACK == 7
DEFAULT_BUFFER_DAYS == 2
\* the clamp now - timedelta(days = 30)
MAX_DAYS_BACK == 30
\* title_terms[:5]
MAX_TITLE_TERMS == 5
\* page_size = 20 in the call of search_everything, min(page_size, 100) in it
PAGE_SIZE == 20
DEFAULT_MIN_SCORE == 2
MAX_PAGE_SIZE == 100

GENERIC_TAGS == {
    "business", "politics", "news", "world", "us", "usa", "america",
    "global", "international", "economy", "economic", "predictions",
    "2024", "2025", "2026" }

-----------------------------------------------------------------------------
(* extract_key_terms                                                        *)

\* faulty variant: the length filter drops three-letter words too
extract_key_terms_short(t) ==
    SelectSeq(str_split(re_sub_punct(str_lower(t))),
              LAMBDA w : w \notin STOP_WORDS /\ str_len(w) > 3)

extract_key_terms(t) ==
    SelectSeq(str_split(re_sub_punct(str_lower(t))),
              LAMBDA w : w \notin STOP_WORDS /\ str_len(w) > 2)

-----------------------------------------------------------------------------
(* Named entities: re.findall(r'\b[A-Z][a-z]+(?:\s+[A-Z][a-z]+)*\b', s)     *)

RECURSIVE LowerRunEnd(_, _)
\* the greedy [a-z]+ : last index of the run of lower-case letters from j on
LowerRunEnd(s, j) ==
    IF j + 1 <= Len(s) /\ IsLower(Ch(s, j + 1)) THEN LowerRunEnd(s, j + 1) ELSE j

\* [A-Z][a-z]+ at i, ending where \b or \s can follow: its last index, else 0.
\* (Backtracking into [a-z]+ never helps: the character after a shorter run
\* is a lower-case letter, which is neither a boundary nor whitespace.)
WordEnd(s, i) ==
    IF i + 1 <= Len(s) /\ IsUpper(Ch(s, i)) /\ IsLower(Ch(s, i + 1))
    THEN LET e == LowerRunEnd(s, i + 1)
         IN  IF e = Len(s) \/ ~IsWordChar(CharAt(s, e + 1)) THEN e ELSE 0
    ELSE 0

RECURSIVE SkipSpaces(_, _)
\* the greedy \s+ : first index from j on that is not whitespace
SkipSpaces(s, j) ==
    IF j <= Len(s) /\ (InsideChar(s, j) \/ IsSpace(CharAt(s, j)))
    THEN SkipSpaces(s, j + 1) ELSE j

RECURSIVE ChainEnd(_, _)
\* the greedy (?:\s+[A-Z][a-z]+)* after a word ending at e
ChainEnd(s, e) ==
    LET k == SkipSpaces(s, e + 1)
        w == WordEnd(s, k)
    IN  IF k > e + 1 /\ w # 0 THEN ChainEnd(s, w) ELSE e

\* last index of the match of the pattern that starts at i, or 0
MatchEnd(s, i) ==
    LET w == WordEnd(s, i)
    IN  IF (i = 1 \/ ~IsWordChar(CharBefore(s, i))) /\ w # 0 THEN ChainEnd(s, w) ELSE 0

RECURSIVE FindallFrom(_, _)
\* the left-to-right scan of re.findall: non-overlapping matches from i on
FindallFrom(s, i) ==
    IF i > Len(s) THEN <<>>
    ELSE LET e == MatchEnd(s, i)
         IN  IF e # 0 THEN <<SubSeq(s, i, e)>> \o FindallFrom(s, e + 1)
             ELSE FindallFrom(s, i + 1)

re_findall_entities(s) == FindallFrom(s, 1)

-----------------------------------------------------------------------------
(* build_news_query                                                         *)

\* [t.lower() for t in terms]
LowerAll(list) == [i \in 1..Len(list) |-> str_lower(list[i])]

\* f'"{entity}"'
Quote(entity) == "\"" \o entity \o "\""

RECURSIVE TagLoop(_, _, _, _)
\* for tag in event.tags, from the i-th tag on
TagLoop(ts, tags, i, mt) ==
    IF i > Len(tags) THEN ts
    ELSE IF str_lower(tags[i]) \notin GENERIC_TAGS
            /\ ~InList(str_lower(tags[i]), LowerAll(ts))
         THEN LET ts2 == Append(ts, tags[i])
              IN  IF Len(ts2) >= mt THEN ts2 ELSE TagLoop(ts2, tags, i + 1, mt)
         ELSE TagLoop(ts, tags, i + 1, mt)

\* faulty variant: the entity is appended instead of inserted at the front
InsertEntityBack(st, entity) ==
    [terms |-> Append(st.terms, Quote(entity)),
     inserted |-> Append(st.inserted, entity)]

\* terms.insert(0, f'"{entity}"')
InsertEntity(st, entity) ==
    [terms |-> <<Quote(entity)>> \o st.terms,
     inserted |-> Append(st.inserted, entity)]

RECURSIVE EntityLoop(_, _, _, _)
\* for entity in named_entities, from the i-th entity on; st.inserted records
\* the entities inserted so far
EntityLoop(st, ents, i, mt) ==
    IF i > Len(ents) THEN st
    ELSE IF str_lower(ents[i]) \notin STOP_WORDS /\ ~InList(ents[i], st.terms)
         THEN LET st2 == InsertEntity(st, ents[i])
              IN  IF Len(st2.terms) >= mt THEN st2 ELSE EntityLoop(st2, ents, i + 1, mt)
         ELSE EntityLoop(st, ents, i + 1, mt)

\* terms.extend(title_terms[:5]), then the tag loop
TermsAfterTags(ev, mt) ==
    TagLoop(SliceTo(extract_key_terms(ev.title), MAX_TITLE_TERMS), ev.tags, 1, mt)

\* the locals of build_news_query when the query is joined
CollectTerms(ev, mt) ==
    EntityLoop([terms |-> TermsAfterTags(ev, mt), inserted |-> <<>>],
               re_findall_entities(ev.title), 1, mt)

\* faulty variant: the term list is joined without the slice
JoinAllTerms(ts, mt) == str_join(" ", ts)

\* ' '.join(terms[:max_terms])
JoinTerms(ts, mt) == str_join(" ", SliceTo(ts, mt))

build_news_query(ev, mt) == JoinTerms(CollectTerms(ev, mt).terms, mt)

-----------------------------------------------------------------------------
(* get_time_window                                                          *)

\* ticks of the clock in one day
TicksPerDay == 2

\* timedelta(days = n)
timedelta(n) == n * TicksPerDay

\* Optional[datetime]: ts is the wall-clock reading, aware says tzinfo is set
NoDate == [has |-> FALSE, ts |-> 0, aware |-> FALSE]
DateTime(t, aw) == [has |-> TRUE, ts |-> t, aware |-> aw]

\* to_naive: dt.replace(tzinfo = None) keeps the wall-clock reading
to_naive(dt) == [dt EXCEPT !.aware = FALSE]

\* faulty variant: a future end_date is used without the min with now + 1 day
ToDateNoCap(ev, n) ==
    IF ev.end_date.has
    THEN IF to_naive(ev.end_date).ts > n THEN to_naive(ev.end_date).ts ELSE n
    ELSE n

\* lines 131-138
ToDate(ev, n) ==
    IF ev.end_date.has
    THEN IF to_naive(ev.end_date).ts > n
         THEN Min(to_naive(ev.end_date).ts, n + timedelta(1))
         ELSE n
    ELSE n

\* faulty variant: the buffered start_date is used without the 30-day clamp
FromDateNoClamp(ev, n, ddb, bd) ==
    IF ev.start_date.has
    THEN to_naive(ev.start_date).ts - timedelta(bd)
    ELSE n - timedelta(ddb)

\* faulty variant: a from_date later than to_date is pulled back to to_date
FromDateNotAfterEnd(ev, n, ddb, bd) ==
    Min(IF ev.start_date.has
        THEN Max(to_naive(ev.start_date).ts - timedelta(bd), n - timedelta(MAX_DAYS_BACK))
        ELSE n - timedelta(ddb),
        ToDate(ev, n))

\* lines 141-148
FromDate(ev, n, ddb, bd) ==
    IF ev.start_date.has
    THEN Max(to_naive(ev.start_date).ts - timedelta(bd), n - timedelta(MAX_DAYS_BACK))
    ELSE n - timedelta(ddb)

\* (from_date, to_date), both naive
get_time_window(ev, n, ddb, bd) ==
    <<DateTime(FromDate(ev, n, ddb, bd), FALSE), DateTime(ToDate(ev, n), FALSE)>>

-----------------------------------------------------------------------------
(* score_article                                                            *)

\* Optional[str]
NoStr == [has |-> FALSE, val |-> ""]
Str(v) == [has |-> TRUE, val |-> v]

\* (x or '')
OrEmpty(x) == IF x.has THEN x.val ELSE ""

RECURSIVE str_lstrip_quote(_)
str_lstrip_quote(s) ==
    IF Len(s) > 0 /\ Ch(s, 1) = "\"" THEN str_lstrip_quote(SubSeq(s, 2, Len(s))) ELSE s

RECURSIVE str_rstrip_quote(_)
str_rstrip_quote(s) ==
    IF Len(s) > 0 /\ Ch(s, Len(s)) = "\""
    THEN str_rstrip_quote(SubSeq(s, 1, Len(s) - 1)) ELSE s

\* term.strip('"')
str_strip_quote(s) == str_rstrip_quote(str_lstrip_quote(s))

RECURSIVE CountMatches(_, _, _)
\* the loop `for term in query_terms: if term_clean in txt: matches += 1`
CountMatches(qts, txt, i) ==
    IF i > Len(qts) THEN 0
    ELSE LET term_clean == str_lower(str_strip_quote(qts[i]))
         IN  (IF Contains(txt, term_clean) THEN 1 ELSE 0) + CountMatches(qts, txt, i + 1)

RECURSIVE MatchedEntities(_, _, _)
\* the entities of the event title found in the article title, in detection order
MatchedEntities(ents, txt, i) ==
    IF i > Len(ents) THEN <<>>
    ELSE (IF Contains(txt, str_lower(ents[i])) THEN <<ents[i]>> ELSE <<>>)
         \o MatchedEntities(ents, txt, i + 1)

\* faulty variant: the day of publication is counted as a day of age
DaysOldCountingToday(n, pub) == (n - pub.ts) \div TicksPerDay + 1

\* (datetime.now() - pub_date).days : timedelta.days is the floor
DaysOld(n, pub) == (n - pub.ts) \div TicksPerDay

quality_sources == {
    "reuters", "bloomberg", "associated press", "bbc", "cnn",
    "wall street journal", "new york times", "washington post",
    "financial times", "the economist", "politico", "axios" }

\* faulty variant: the article title is not lower-cased before the search
TitleMatchesCaseSensitive(a, qts) == CountMatches(qts, a.title, 1)

TitleMatches(a, qts) ==
    LET article_title == str_lower(a.title) IN CountMatches(qts, article_title, 1)
DescMatches(a, qts) ==
    LET article_desc == str_lower(OrEmpty(a.description))
    IN  CountMatches(qts, article_desc, 1)
\* faulty variant: the entity loop stops at the first entity found
EntityMatchesFirstOnly(a, ev) ==
    LET article_title == str_lower(a.title)
        ents == re_findall_entities(ev.title)
    IN  SliceTo(MatchedEntities(ents, article_title, 1), 1)

EntityMatches(a, ev) ==
    LET article_title == str_lower(a.title)
        ents == re_findall_entities(ev.title)
    IN  MatchedEntities(ents, article_title, 1)
\* faulty variant: the exact age is compared with one day, not the whole days
VeryRecentExactAge(a, n) ==
    a.published_at.has /\ n - to_naive(a.published_at).ts <= timedelta(1)

VeryRecent(a, n) == a.published_at.has /\ DaysOld(n, to_naive(a.published_at)) <= 1
Recent(a, n) ==
    a.published_at.has /\ ~VeryRecent(a, n) /\ DaysOld(n, to_naive(a.published_at)) <= 3
QualitySource(a) ==
    LET source_lower == str_lower(a.source_name)
    IN  \E qs \in quality_sources : Contains(source_lower, qs)

\* faulty variant: the source bonus is given once for each outlet name found in
\* the source, not once for any
score_article_per_outlet(a, ev, qts, n) ==
    LET title_matches == TitleMatches(a, qts)
        desc_matches == DescMatches(a, qts)
        entities == EntityMatches(a, ev)
        very_recent == VeryRecent(a, n)
        recent == Recent(a, n)
        source_lower == str_lower(a.source_name)
        outlets == Cardinality({qs \in quality_sources : Contains(source_lower, qs)})
    IN  [article |-> a,
         score |-> (IF title_matches > 0 THEN title_matches * 3 ELSE 0)
                 + (IF desc_matches > 0 THEN desc_matches * 1 ELSE 0)
                 + 5 * Len(entities)
                 + (IF very_recent THEN 2 ELSE IF recent THEN 1 ELSE 0)
                 + outlets,
         match_reasons |->
              (IF title_matches > 0
               THEN <<"title_match:" \o ToString(title_matches)>> ELSE <<>>)
           \o (IF desc_matches > 0
               THEN <<"desc_match:" \o ToString(desc_matches)>> ELSE <<>>)
           \o [i \in 1..Len(entities) |-> "entity:" \o entities[i]]
           \o (IF very_recent THEN <<"very_recent">>
               ELSE IF recent THEN <<"recent">> ELSE <<>>)
           \o [i \in 1..outlets |-> "quality_source"]]

\* score_article: the score and the reasons, rule by rule
\* faulty variant: the two recency rules are tested one after the other (if
\* where the code has elif), so an article of today takes both
score_article_both_recency(a, ev, qts, n) ==
    LET title_matches == TitleMatches(a, qts)
        desc_matches == DescMatches(a, qts)
        entities == EntityMatches(a, ev)
        very_recent == VeryRecent(a, n)
        recent == a.published_at.has /\ DaysOld(n, to_naive(a.published_at)) <= 3
        quality == QualitySource(a)
    IN  [article |-> a,
         score |-> (IF title_matches > 0 THEN title_matches * 3 ELSE 0)
                 + (IF desc_matches > 0 THEN desc_matches * 1 ELSE 0)
                 + 5 * Len(entities)
                 + (IF very_recent THEN 2 ELSE 0) + (IF recent THEN 1 ELSE 0)
                 + (IF quality THEN 1 ELSE 0),
         match_reasons |->
              (IF title_matches > 0
               THEN <<"title_match:" \o ToString(title_matches)>> ELSE <<>>)
           \o (IF desc_matches > 0
               THEN <<"desc_match:" \o ToString(desc_matches)>> ELSE <<>>)
           \o [i \in 1..Len(entities) |-> "entity:" \o entities[i]]
           \o (IF very_recent THEN <<"very_recent">> ELSE <<>>)
           \o (IF recent THEN <<"recent">> ELSE <<>>)
           \o (IF quality THEN <<"quality_source">> ELSE <<>>)]

score_article(a, ev, qts, n) ==
    LET title_matches == TitleMatches(a, qts)
        desc_matches == DescMatches(a, qts)
        entities == EntityMatches(a, ev)
        very_recent == VeryRecent(a, n)
        recent == Recent(a, n)
        quality == QualitySource(a)
    IN  [article |-> a,
         score |-> (IF title_matches > 0 THEN title_matches * 3 ELSE 0)
                 + (IF desc_matches > 0 THEN desc_matches * 1 ELSE 0)
                 + 5 * Len(entities)
                 + (IF very_recent THEN 2 ELSE IF recent THEN 1 ELSE 0)
                 + (IF quality THEN 1 ELSE 0),
         match_reasons |->
              (IF title_matches > 0
               THEN <<"title_match:" \o ToString(title_matches)>> ELSE <<>>)
           \o (IF desc_matches > 0
               THEN <<"desc_match:" \o ToString(desc_matches)>> ELSE <<>>)
           \o [i \in 1..Len(entities) |-> "entity:" \o entities[i]]
           \o (IF very_recent THEN <<"very_recent">>
               ELSE IF recent THEN <<"recent">> ELSE <<>>)
           \o (IF quality THEN <<"quality_source">> ELSE <<>>)]

-----------------------------------------------------------------------------
(* match_news_to_event                                                      *)

\* [score_article(a, event, query_terms) for a in articles]; the i-th call reads
\* the clock anew and finds nows[i]; pos is the place of the article in the
\* fetched list (the identity of the list element)
ScoreAll(arts, ev, qts, nows) ==
    [i \in 1..Len(arts) |->
        LET sa == score_article(arts[i], ev, qts, nows[i])
        IN  [article |-> sa.article, score |-> sa.score,
             match_reasons |-> sa.match_reasons, pos |-> i]]

\* what len successive readings of a clock that stands at n can give when it
\* advances by at most one tick meanwhile: n up to some call, n + 1 from then on
ClockReadings(n, len) ==
    {[i \in 1..len |-> IF i < k THEN n ELSE n + 1] : k \in 1..(len + 1)}

\* the clock after the readings nows
ClockAfter(n, nows) == IF nows = <<>> THEN n ELSE nows[Len(nows)]

\* faulty variant: no article is filtered out
KeepAll(list, ms) == list

\* faulty variant: an article scoring exactly min_score is filtered out
FilterAbove(list, ms) == SelectSeq(list, LAMBDA sa : sa.score > ms)

\* [s for s in scored if s.score >= min_score]
FilterScored(list, ms) == SelectSeq(list, LAMBDA sa : sa.score >= ms)

\* where list.sort puts x among the already sorted elements: behind every
\* element whose key is not smaller (the sort is stable, also with reverse)
InsertDesc(sorted, x) ==
    LET k == Cardinality({i \in 1..Len(sorted) : sorted[i].score >= x.score})
    IN  SubSeq(sorted, 1, k) \o <<x>> \o SubSeq(sorted, k + 1, Len(sorted))

RECURSIVE SortFrom(_, _, _)
SortFrom(list, i, acc) ==
    IF i > Len(list) THEN acc ELSE SortFrom(list, i + 1, InsertDesc(acc, list[i]))

\* faulty variant: a sort by score, descending, that puts later equal elements
\* first
InsertDescUnstable(sorted, x) ==
    LET k == Cardinality({i \in 1..Len(sorted) : sorted[i].score > x.score})
    IN  SubSeq(sorted, 1, k) \o <<x>> \o SubSeq(sorted, k + 1, Len(sorted))

RECURSIVE SortFromUnstable(_, _, _)
SortFromUnstable(list, i, acc) ==
    IF i > Len(list) THEN acc
    ELSE SortFromUnstable(list, i + 1, InsertDescUnstable(acc, list[i]))

SortUnstable(list) == SortFromUnstable(list, 1, <<>>)

\* scored.sort(key = lambda x: x.score, reverse = True)
SortByScoreDesc(list) == SortFrom(list, 1, <<>>)

\* faulty variant: the slice is one element too long
TruncateOneMore(list, ma) == SliceTo(list, ma + 1)

\* scored[:max_articles]
Truncate(list, ma) == SliceTo(list, ma)

\* faulty variant: the list is cut to max_articles before it is sorted
RankTruncateFirst(list, ms, ma) == SortByScoreDesc(Truncate(FilterScored(list, ms), ma))

\* lines 280-284: filter, sort, truncate
RankScored(list, ms, ma) == Truncate(SortByScoreDesc(FilterScored(list, ms)), ma)

-----------------------------------------------------------------------------
(* The values the variables of a function hold while another one runs.      *)

NoEvent == [title |-> "", tags |-> <<>>, start_date |-> NoDate, end_date |-> NoDate]

\* the clock reading the runs start from
Epoch == timedelta(100)

TermsIdle == text = "" /\ key_terms = <<>>
QueryIdle ==
    /\ max_terms = DEFAULT_MAX_TERMS /\ title_terms = <<>> /\ named_entities = <<>>
    /\ inserted = <<>> /\ terms = <<>> /\ query = ""
WindowIdle ==
    /\ default_days_back = DEFAULT_DAYS_BACK /\ buffer_days = DEFAULT_BUFFER_DAYS
    /\ from_date = NoDate /\ to_date = NoDate
NoRequest == [q |-> "", language |-> "", sortBy |-> "", page |-> 0, pageSize |-> 0,
              from |-> 0, to |-> 0]
MatchIdle ==
    /\ max_articles = 0 /\ min_score = 0 /\ query_terms = <<>> /\ request = NoRequest
    /\ search_calls = 0 /\ error = "None" /\ logged = FALSE
    /\ articles = <<>> /\ scored = <<>> /\ result = <<>>

termsVars == <<text, key_terms>>
queryVars == <<max_terms, title_terms, named_entities, inserted, terms, query>>
windowVars == <<default_days_back, buffer_days, from_date, to_date>>
matchVars == <<max_articles, min_score, query_terms, request, search_calls, error,
               logged, articles, scored, result>>

NoArticle == [source_name |-> "", title |-> "", description |-> NoStr,
              published_at |-> NoDate]
NoScored == [article |-> NoArticle, score |-> 0, match_reasons |-> <<>>]
ScoreIdle == article = NoArticle /\ scored_article = NoScored
scoreVars == <<article, scored_article>>

\* no concurrent invocation is running
NoInvocations == invocations = <<>>

\* no summarize_event and no route handler is running
NoSummarizer == [pc |-> "idle"]
NoHandler == [pc |-> "idle"]
ApiIdle == summarizer = NoSummarizer /\ handler = NoHandler
apiVars == <<summarizer, handler>>

-----------------------------------------------------------------------------
(* extract_key_terms applied to bounded texts.                              *)

\* longest text, in words, that the term extractor is applied to
MaxWords == 3

TermWords == {"The", "Fed", "rates", "no", "a_b", "Up"}
TermSeparators == {" ", ",\t", "-"}

RECURSIVE TextsOfWords(_)
TextsOfWords(n) ==
    IF n = 0 THEN {""}
    ELSE IF n = 1 THEN TermWords
    ELSE {w \o sep \o t : w \in TermWords, sep \in TermSeparators, t \in TextsOfWords(n - 1)}

\* texts with letters beyond ASCII and with whitespace other than blank and
\* tab (form feed, and U+00A0 between the words of the last one)
TermTextsLatin1 == {
    "café society",
    "École Normale: ÉCOLE fermée",
    "Will Orbán win the election?",
    "Elon\fMusk buys",
    "São Paulo no go" }

Texts ==
    UNION {TextsOfWords(n) : n \in 0..MaxWords}
        \cup {"The Fed will raise rates"} \cup TermTextsLatin1

InitTerms ==
    /\ pc = "extract_key_terms"
    /\ text \in Texts /\ key_terms = <<>>
    /\ event = NoEvent /\ now = Epoch
    /\ QueryIdle /\ WindowIdle /\ MatchIdle /\ ScoreIdle /\ NoInvocations /\ ApiIdle

ExtractKeyTerms ==
    /\ pc = "extract_key_terms"
    /\ key_terms' = extract_key_terms(text)
    /\ pc' = "extract_key_terms:return"
    /\ UNCHANGED <<apiVars, invocations, scoreVars,
                   text, event, now, queryVars, windowVars, matchVars>>

NextTerms == ExtractKeyTerms

SpecTerms == InitTerms /\ [][NextTerms]_vars

-----------------------------------------------------------------------------
(* build_news_query applied to bounded events.                              *)

\* largest max_terms argument, and longest tag list
MaxTermsArg == 8
MaxTags == 2

Titles == {
    "Elon Musk buys Twitter",
    "Will the Fed raise rates in March?",
    "Bitcoin above 100k by December: Bitcoin ETF",
    "Federal Reserve cuts interest rates before June meeting ends",
    "US election results",
    "Ai summit",
    "Elon\fMusk buys Twitter",
    "Will Orbán win the election?",
    "" }

TagLabels == {"Politics", "Crypto", "Elon", "Ai", "2024", "Tech"}

TagLists == UNION {[1..n -> TagLabels] : n \in 0..MaxTags}

QueryEvents ==
    {[title |-> t, tags |-> g, start_date |-> NoDate, end_date |-> NoDate] :
        t \in Titles, g \in TagLists}

InitQuery ==
    /\ pc = "build_news_query"
    /\ event \in QueryEvents
    /\ max_terms \in -1..MaxTermsArg
    /\ title_terms = <<>> /\ named_entities = <<>> /\ inserted = <<>>
    /\ terms = <<>> /\ query = ""
    /\ now = Epoch
    /\ TermsIdle /\ WindowIdle /\ MatchIdle /\ ScoreIdle /\ NoInvocations /\ ApiIdle

BuildNewsQuery ==
    /\ pc = "build_news_query"
    /\ title_terms' = extract_key_terms(event.title)
    /\ named_entities' = re_findall_entities(event.title)
    /\ LET st == CollectTerms(event, max_terms)
       IN  /\ inserted' = st.inserted
           /\ terms' = st.terms
           /\ query' = JoinTerms(st.terms, max_terms)
    /\ pc' = "build_news_query:return"
    /\ UNCHANGED <<apiVars, invocations, scoreVars,
                   event, max_terms, now, termsVars, windowVars, matchVars>>

NextQuery == BuildNewsQuery

SpecQuery == InitQuery /\ [][NextQuery]_vars

-----------------------------------------------------------------------------
(* get_time_window applied to bounded events and clock readings.            *)

\* how far event dates lie from now, in days, and the largest buffer_days
MaxDaysBefore == 42
MaxDaysAfter == 3
MaxBufferDays == 3

EventDates(n, back, ahead) ==
    {NoDate} \cup {DateTime(t, aw) : t \in (n - timedelta(back))..(n + timedelta(ahead)),
                                     aw \in BOOLEAN}

InitWindow ==
    /\ pc = "get_time_window"
    /\ now \in {Epoch, Epoch + 1}
    /\ \E s \in EventDates(now, MaxDaysBefore, MaxDaysAfter),
          e \in EventDates(now, MaxDaysAfter, MaxDaysAfter) :
          event = [title |-> "", tags |-> <<>>, start_date |-> s, end_date |-> e]
    /\ default_days_back \in {1, DEFAULT_DAYS_BACK}
    /\ buffer_days \in 0..MaxBufferDays
    /\ from_date = NoDate /\ to_date = NoDate
    /\ TermsIdle /\ QueryIdle /\ MatchIdle /\ ScoreIdle /\ NoInvocations /\ ApiIdle

GetTimeWindow ==
    /\ pc = "get_time_window"
    /\ from_date' = get_time_window(event, now, default_days_back, buffer_days)[1]
    /\ to_date' = get_time_window(event, now, default_days_back, buffer_days)[2]
    /\ pc' = "get_time_window:return"
    /\ UNCHANGED <<apiVars, invocations, scoreVars,
                   event, now, default_days_back, buffer_days, termsVars, queryVars,
                   matchVars>>

NextWindow == GetTimeWindow

SpecWindow == InitWindow /\ [][NextWindow]_vars

-----------------------------------------------------------------------------
(* match_news_to_event: one invocation, with the news search as the         *)
(* environment that either returns a list of articles or raises.            *)

\* longest list the search returns, and the largest max_articles argument
MaxFetch == 3
MaxArticles == 2

\* min_score is a float and scores are whole numbers: a threshold between two
\* whole numbers filters like the next whole number, so whole thresholds
\* stand for all (2 is the default)
MinScores == {0, 2, 4}

MatchEvents == {
    [title |-> "Elon Musk buys Twitter", tags |-> <<"Tech", "Politics">>,
     start_date |-> NoDate, end_date |-> NoDate],
    [title |-> "Will the Fed raise rates in March?", tags |-> <<>>,
     start_date |-> DateTime(Epoch - timedelta(40), TRUE),
     end_date |-> DateTime(Epoch + timedelta(5), TRUE)],
    [title |-> "US election results", tags |-> <<"Politics">>,
     start_date |-> DateTime(Epoch + timedelta(5), FALSE), end_date |-> NoDate] }

\* the Some Blog article is one tick short of two days old when the run
\* starts: very_recent to a call of score_article that reads the clock before
\* it advances, recent to a later one
ArticleCatalog == {
    [source_name |-> "Reuters", title |-> "Elon Musk closes Twitter deal",
     description |-> Str("Musk buys Twitter today"),
     published_at |-> DateTime(Epoch - 1, TRUE)],
    [source_name |-> "Some Blog", title |-> "Fed raises rates again",
     description |-> NoStr,
     published_at |-> DateTime(Epoch - timedelta(2) + 1, FALSE)],
    [source_name |-> "BBC News", title |-> "Weather tomorrow",
     description |-> Str(""),
     published_at |-> DateTime(Epoch, TRUE)],
    [source_name |-> "Unknown", title |-> "Election results delayed",
     description |-> Str("US election"),
     published_at |-> NoDate] }

\* the lists a search returns: up to MaxFetch articles, no article twice
FetchResults ==
    {arts \in UNION {[1..n -> ArticleCatalog] : n \in 0..MaxFetch} :
        \A i, j \in 1..Len(arts) : i # j => arts[i] # arts[j]}

\* the exceptions search_everything can raise, and the classes above them
SearchFailures == {"URLError", "HTTPError", "TimeoutError", "JSONDecodeError", "Exception"}

BaseClass ==
    [c \in {"HTTPError", "URLError", "TimeoutError", "OSError", "JSONDecodeError",
            "ValueError", "KeyError", "IndexError", "LookupError", "TypeError",
            "AttributeError", "Exception", "KeyboardInterrupt", "SystemExit"} |->
        CASE c = "HTTPError" -> "URLError"
          [] c = "URLError" -> "OSError"
          [] c = "TimeoutError" -> "OSError"
          [] c = "OSError" -> "Exception"
          [] c = "JSONDecodeError" -> "ValueError"
          [] c = "ValueError" -> "Exception"
          [] c = "KeyError" -> "LookupError"
          [] c = "IndexError" -> "LookupError"
          [] c = "LookupError" -> "Exception"
          [] c = "TypeError" -> "Exception"
          [] c = "AttributeError" -> "Exception"
          [] c = "Exception" -> "BaseException"
          [] c = "KeyboardInterrupt" -> "BaseException"
          [] c = "SystemExit" -> "BaseException"]

RECURSIVE IsSubclass(_, _)
IsSubclass(c, base) ==
    IF c = base THEN TRUE
    ELSE IF c \in DOMAIN BaseClass THEN IsSubclass(BaseClass[c], base)
    ELSE FALSE

\* faulty variant: an except clause that names the transport errors only
CatchesURLError(kind) == IsSubclass(kind, "URLError")

\* except Exception as e
Catches(kind) == IsSubclass(kind, "Exception")

\* strftime('%Y-%m-%d'): the day of a naive timestamp
DayOf(dt) == dt.ts \div TicksPerDay

\* a key of the params dict that is set only under its `if`
ParamIf(cond, key, val) == IF cond THEN key :> val ELSE [k \in {} |-> 0]

\* the params dict search_everything builds: 'from' and 'to' are set for a
\* from_date and a to_date that are not None
SearchParams(q, fd, td, sort_by, page_size) ==
    [q |-> q, language |-> "en", sortBy |-> sort_by, page |-> 1,
     pageSize |-> Min(page_size, MAX_PAGE_SIZE)]
        @@ ParamIf(fd.has, "from", DayOf(fd))
        @@ ParamIf(td.has, "to", DayOf(td))

Init ==
    /\ pc = "match_news_to_event"
    /\ event \in MatchEvents
    /\ max_articles \in -1..MaxArticles
    /\ min_score \in MinScores
    /\ now = Epoch
    /\ query = "" /\ query_terms = <<>>
    /\ from_date = NoDate /\ to_date = NoDate
    /\ request = NoRequest /\ search_calls = 0 /\ error = "None" /\ logged = FALSE
    /\ articles = <<>> /\ scored = <<>> /\ result = <<>>
    /\ max_terms = DEFAULT_MAX_TERMS /\ title_terms = <<>> /\ named_entities = <<>>
    /\ inserted = <<>> /\ terms = <<>>
    /\ default_days_back = DEFAULT_DAYS_BACK /\ buffer_days = DEFAULT_BUFFER_DAYS
    /\ TermsIdle /\ ScoreIdle /\ NoInvocations /\ ApiIdle

\* lines 256-272: build the query, the window, and call the search
MatchCall ==
    /\ pc = "match_news_to_event"
    /\ LET q == build_news_query(event, DEFAULT_MAX_TERMS)
           w == get_time_window(event, now, DEFAULT_DAYS_BACK, DEFAULT_BUFFER_DAYS)
       IN  /\ query' = q
           /\ query_terms' = str_split(q)
           /\ from_date' = w[1]
           /\ to_date' = w[2]
           /\ request' = SearchParams(q, w[1], w[2], "relevancy", PAGE_SIZE)
    /\ search_calls' = search_calls + 1
    /\ pc' = "search_everything"
    /\ UNCHANGED <<apiVars, invocations, scoreVars,
                   event, now, max_articles, min_score, error, logged, articles,
                   scored, result, termsVars, max_terms, title_terms, named_entities,
                   inserted, terms, default_days_back, buffer_days>>

\* the search returns arts, and the calls of score_article read nows off the
\* clock: lines 277-284
SearchReturns(arts, nows) ==
    /\ pc = "search_everything"
    /\ articles' = arts
    /\ scored' = ScoreAll(arts, event, query_terms, nows)
    /\ now' = ClockAfter(now, nows)
    /\ result' = RankScored(scored', min_score, max_articles)
    /\ pc' = "match_news_to_event:return"
    /\ UNCHANGED <<apiVars, invocations, scoreVars,
                   event, max_articles, min_score, query, query_terms, from_date,
                   to_date, request, search_calls, error, logged, termsVars, max_terms,
                   title_terms, named_entities, inserted, terms, default_days_back,
                   buffer_days>>

\* faulty variant: a handler that calls the search again after a failure
SearchRaisesRetry(kind) ==
    /\ pc = "search_everything"
    /\ search_calls < 2
    /\ error' = kind
    /\ logged' = TRUE
    /\ search_calls' = search_calls + 1
    /\ UNCHANGED <<apiVars, invocations, scoreVars,
                   pc, event, now, max_articles, min_score, query, query_terms,
                   from_date, to_date, request, articles, scored, result, termsVars,
                   max_terms, title_terms, named_entities, inserted, terms,
                   default_days_back, buffer_days>>

\* the search raises kind: lines 273-275, or the exception leaves the function
SearchRaises(kind) ==
    /\ pc = "search_everything"
    /\ error' = kind
    /\ IF Catches(kind)
       THEN /\ logged' = TRUE
            /\ result' = <<>>
            /\ pc' = "match_news_to_event:return"
       ELSE /\ pc' = "match_news_to_event:raise"
            /\ UNCHANGED <<logged, result>>
    /\ UNCHANGED <<apiVars, invocations, scoreVars,
                   event, now, max_articles, min_score, query, query_terms, from_date,
                   to_date, request, search_calls, articles, scored, termsVars,
                   max_terms, title_terms, named_entities, inserted, terms,
                   default_days_back, buffer_days>>

Next ==
    \/ MatchCall
    \/ \E arts \in FetchResults :
          \E nows \in ClockReadings(now, Len(arts)) : SearchReturns(arts, nows)
    \/ \E kind \in SearchFailures : SearchRaises(kind)

Spec == Init /\ [][Next]_vars

-----------------------------------------------------------------------------
(* Properties of match_news_to_event, checked under Spec.                   *)

Returned == pc = "match_news_to_event:return"

\* the elements of scored that clear min_score
Qualifying == {i \in 1..Len(scored) : scored[i].score >= min_score}

\* C1 (score floor): every ScoredArticle that match_news_to_event returns has
\* score >= min_score, whatever the event, the fetched list, max_articles and
\* min_score.
C1_ScoreFloor ==
    Returned => \A i \in 1..Len(result) : result[i].score >= min_score

\* C1 witness: a call with the default min_score 2 returned an article while
\* another fetched article scored below the floor and was dropped.
C1_Witness ==
    /\ Returned /\ min_score = 2 /\ Len(result) >= 1
    /\ \E i \in 1..Len(scored) : scored[i].score < min_score

\* C2 (sort order): the returned sequence is non-increasing in score, and two
\* returned articles of equal score stand in the order in which the search
\* returned them.
C2_SortOrder ==
    Returned =>
        /\ \A i \in 1..(Len(result) - 1) : result[i].score >= result[i + 1].score
        /\ \A i, j \in 1..Len(result) :
              (i < j /\ result[i].score = result[j].score) => result[i].pos < result[j].pos

\* C2 witness: two articles of equal score were returned, and the sort had
\* moved them in front of an article that was fetched earlier, cleared the
\* floor and scored less.
C2_Witness ==
    /\ Returned
    /\ \E i, j \in 1..Len(result) : i < j /\ result[i].score = result[j].score
    /\ \E k \in Qualifying :
          k < result[1].pos /\ scored[k].score < result[1].score

\* C3 as stated (truncation): for any integer max_articles the returned
\* sequence is no longer than max_articles.
C3_Original == Returned => Len(result) <= max_articles

\* C3 amended (truncation): for any max_articles >= 0 the returned sequence is
\* no longer than max_articles.
C3_Truncation == (Returned /\ max_articles >= 0) => Len(result) <= max_articles

\* C3 witness: more articles cleared the floor than max_articles allows, and
\* exactly max_articles of them were returned.
C3_Witness ==
    /\ Returned /\ max_articles >= 1
    /\ Cardinality(Qualifying) > max_articles
    /\ Len(result) = max_articles

\* C4 (remote failure degradation): when the news search fails, whatever the
\* failure, match_news_to_event returns the empty sequence, the error does not
\* reach the caller, and no article is scored.
C4_FailureDegrades ==
    error # "None" =>
        /\ pc = "match_news_to_event:return"
        /\ result = <<>> /\ scored = <<>> /\ articles = <<>>
        /\ logged

\* C4 witness: the client raised on a non-ok status and the call returned the
\* empty sequence.
C4_Witness ==
    /\ error = "Exception" /\ Returned /\ result = <<>> /\ logged

\* C5 (no retry): one invocation calls the news search exactly once; after a
\* failed attempt no second call is made and the invocation has ended with the
\* empty result.
C5_NoRetry ==
    /\ search_calls <= 1
    /\ pc = "match_news_to_event" => search_calls = 0
    /\ pc # "match_news_to_event" => search_calls = 1
    /\ error # "None" => (pc # "search_everything" /\ result = <<>>)

\* C5 witness: the search timed out, and the invocation ended after its one call.
C5_Witness ==
    /\ error = "TimeoutError" /\ Returned /\ search_calls = 1 /\ result = <<>>

-----------------------------------------------------------------------------
(* Properties of get_time_window, checked under SpecWindow.                 *)

WindowReturned == pc = "get_time_window:return"

\* the wall-clock reading of an event date
WallClock(d) == d.ts

\* C6 (time window start): with a start_date, from_date is the later of
\* start_date - buffer_days and now - 30 days, so never earlier than
\* now - 30 days; without one it is now - default_days_back days.  A start_date
\* 40 days before now with buffer_days = 2 gives now - 30 days.
C6_WindowStart ==
    WindowReturned =>
        LET buffered == WallClock(event.start_date) - buffer_days * TicksPerDay
            floor == now - 30 * TicksPerDay
        IN  /\ from_date.has /\ ~from_date.aware
            /\ event.start_date.has =>
                  /\ from_date.ts >= floor
                  /\ from_date.ts >= buffered
                  /\ from_date.ts \in {buffered, floor}
            /\ ~event.start_date.has =>
                  from_date.ts = now - default_days_back * TicksPerDay
            /\ (/\ event.start_date.has
                /\ WallClock(event.start_date) = now - 40 * TicksPerDay
                /\ buffer_days = 2) => from_date.ts = now - 30 * TicksPerDay

\* C6 witness: the window of an event that started 40 days ago, computed with
\* buffer_days = 2, starts 30 days ago.
C6_Witness ==
    /\ WindowReturned /\ event.start_date.has /\ buffer_days = 2
    /\ WallClock(event.start_date) = now - 40 * TicksPerDay
    /\ from_date.ts = now - 30 * TicksPerDay

\* C7 (time window end): with an end_date strictly after now, to_date is the
\* earlier of end_date and now + 1 day; otherwise (no end_date, or one that is
\* now or has elapsed) it is now.  Hence now <= to_date <= now + 1 day.
C7_WindowEnd ==
    WindowReturned =>
        LET ends == WallClock(event.end_date)
            cap == now + TicksPerDay
        IN  /\ to_date.has /\ ~to_date.aware
            /\ (event.end_date.has /\ ends > now) =>
                  /\ to_date.ts <= ends /\ to_date.ts <= cap
                  /\ to_date.ts \in {ends, cap}
            /\ ~(event.end_date.has /\ ends > now) => to_date.ts = now
            /\ now <= to_date.ts /\ to_date.ts <= cap

\* C7 witness: an event ending more than a day from now got to_date = now + 1
\* day.
C7_Witness ==
    /\ WindowReturned /\ event.end_date.has
    /\ WallClock(event.end_date) > now + TicksPerDay
    /\ to_date.ts = now + TicksPerDay

-----------------------------------------------------------------------------
(* Properties of extract_key_terms, checked under SpecTerms.                *)

TermsReturned == pc = "extract_key_terms:return"

\* the positions of s where a token starts: a character that is neither
\* whitespace nor punctuation, first or behind one that is
TokenStarts(s) ==
    {i \in 1..Len(s) :
        /\ ~InsideChar(s, i) /\ IsWordChar(CharAt(s, i))
        /\ i = 1 \/ ~IsWordChar(CharBefore(s, i))}

\* the last position of the token that starts at i
TokenEnd(s, i) ==
    CHOOSE j \in i..Len(s) :
        /\ \A k \in i..j : InsideChar(s, k) \/ IsWordChar(CharAt(s, k))
        /\ j = Len(s) \/ ~(InsideChar(s, j + 1) \/ IsWordChar(CharAt(s, j + 1)))

\* the k-th token start from the left
NthStart(s, k) ==
    CHOOSE i \in TokenStarts(s) : Cardinality({j \in TokenStarts(s) : j < i}) = k - 1

\* the tokens of s in text order: its maximal runs of word characters
Tokens(s) ==
    [k \in 1..Cardinality(TokenStarts(s)) |->
        SubSeq(s, NthStart(s, k), TokenEnd(s, NthStart(s, k)))]

\* the characters that have a lower-case form other than themselves
CasedUpper == UpperChars \cup WideCharsOf(UPPERCASE_LATIN1)

\* C8 (term extraction): extract_key_terms returns exactly the tokens of the
\* lower-cased text that are no stop words and have length >= 3, in text
\* order, repeats kept; no returned term holds an upper-case letter; the empty
\* text gives the empty list, and "The Fed will raise rates" gives fed, raise,
\* rates.
C8_TermExtraction ==
    TermsReturned =>
        /\ key_terms = SelectSeq(Tokens(str_lower(text)),
                                 LAMBDA w : w \notin STOP_WORDS /\ str_len(w) >= 3)
        /\ \A k \in 1..Len(key_terms) : \A i \in 1..Len(key_terms[k]) :
              InsideChar(key_terms[k], i) \/ CharAt(key_terms[k], i) \notin CasedUpper
        /\ text = "" => key_terms = <<>>
        /\ text = "The Fed will raise rates" => key_terms = <<"fed", "raise", "rates">>

\* C8 witness: the example text was processed and gave fed, raise, rates.
C8_Witness ==
    /\ TermsReturned /\ text = "The Fed will raise rates"
    /\ key_terms = <<"fed", "raise", "rates">>

-----------------------------------------------------------------------------
(* Properties of build_news_query, checked under SpecQuery.                 *)

QueryReturned == pc = "build_news_query:return"

RECURSIVE IsSubsequence(_, _)
\* a is b with some elements left out
IsSubsequence(a, b) ==
    IF a = <<>> THEN TRUE
    ELSE IF b = <<>> THEN FALSE
    ELSE IF a[1] = b[1] THEN IsSubsequence(Tail(a), Tail(b))
    ELSE IsSubsequence(a, Tail(b))

Reverse(list) == [i \in 1..Len(list) |-> list[Len(list) + 1 - i]]

IsQuoted(t) == Len(t) >= 2 /\ Ch(t, 1) = "\"" /\ Ch(t, Len(t)) = "\""
Unquoted(t) == SubSeq(t, 2, Len(t) - 1)

\* C9 (bounded query): for max_terms >= 0 the query is the single-space join
\* of the first max_terms entries of the collected term list (all of them when
\* there are fewer), a quoted entity or a tag counting as one term.
C9_BoundedQuery ==
    (QueryReturned /\ max_terms >= 0) =>
        \E n \in 0..Len(terms) :
            /\ n <= max_terms
            /\ n = Len(terms) \/ n = max_terms
            /\ query = str_join(" ", [i \in 1..n |-> terms[i]])

\* C9 witness: more terms were collected than max_terms, and a two-word quoted
\* entity is the first of those kept.
C9_Witness ==
    /\ QueryReturned /\ max_terms >= 2 /\ Len(terms) > max_terms
    /\ terms[1] = "\"Elon Musk\""
    /\ Contains(query, "\"Elon Musk\"")

\* C10 (query term order): the collected terms are the quoted entities, in the
\* reverse of their detection order, then the first 5 key terms of the title
\* (all of them when there are fewer) in title order, then accepted tags in
\* event.tags order, and the query lists a prefix of them in that order.  For
\* the title "Elon Musk buys Twitter" and max_terms >= 1 the query contains
\* the quoted "Elon Musk".
C10_TermOrder ==
    QueryReturned =>
        /\ \E a \in 0..Len(terms) : \E b \in a..Len(terms) :
              /\ \A i \in 1..a : IsQuoted(terms[i])
              /\ IsSubsequence(Reverse([i \in 1..a |-> Unquoted(terms[i])]),
                               named_entities)
              /\ SubSeq(terms, a + 1, b)
                    = SubSeq(title_terms, 1, Min(5, Len(title_terms)))
              /\ IsSubsequence(SubSeq(terms, b + 1, Len(terms)), event.tags)
        /\ \E n \in 0..Len(terms) : query = str_join(" ", SubSeq(terms, 1, n))
        /\ (event.title = "Elon Musk buys Twitter" /\ max_terms >= 1) =>
              Contains(query, "\"Elon Musk\"")

\* C10 witness: two entities were detected in "Elon Musk buys Twitter" and a tag
\* accepted; the query lists the later entity first, then the earlier one, the
\* title terms and the tag.
C10_Witness ==
    /\ QueryReturned /\ event.title = "Elon Musk buys Twitter"
    /\ named_entities = <<"Elon Musk", "Twitter">>
    /\ query = "\"Twitter\" \"Elon Musk\" elon musk buys twitter Crypto"

\* the tags build_news_query appended: what follows the inserted entities and
\* the title terms in the collected list
KeptTitleTerms == SubSeq(title_terms, 1, Min(MAX_TITLE_TERMS, Len(title_terms)))
AppendedTags ==
    SubSeq(terms, Len(inserted) + Len(KeptTitleTerms) + 1, Len(terms))

\* the entries of list at the indices in S, in list order
RECURSIVE Pick(_, _, _)
Pick(list, S, i) ==
    IF i > Len(list) THEN <<>>
    ELSE (IF i \in S THEN <<list[i]>> ELSE <<>>) \o Pick(list, S, i + 1)

\* C11 (tag selection): the appended tags are tags of the event, in their
\* original case and in event.tags order; each one is not generic and differs,
\* case-insensitively, from every term collected before it (title terms and
\* earlier tags); and none was appended when the running term count had
\* already reached max_terms.  Stated for max_terms >= 1, where it already
\* fails.
C11_TagSelection ==
    (QueryReturned /\ max_terms >= 1) =>
        \E S \in SUBSET (1..Len(event.tags)) :
            /\ AppendedTags = Pick(event.tags, S, 1)
            /\ \A j \in 1..Len(AppendedTags) :
                  LET before == KeptTitleTerms \o SubSeq(AppendedTags, 1, j - 1)
                  IN  /\ str_lower(AppendedTags[j]) \notin GENERIC_TAGS
                      /\ ~InList(str_lower(AppendedTags[j]), LowerAll(before))
                      /\ Len(before) < max_terms

\* C11, the selection rule without the cap: holds of every query built.
C11_SelectionRule ==
    QueryReturned =>
        \E S \in SUBSET (1..Len(event.tags)) :
            /\ AppendedTags = Pick(event.tags, S, 1)
            /\ \A j \in 1..Len(AppendedTags) :
                  LET before == KeptTitleTerms \o SubSeq(AppendedTags, 1, j - 1)
                  IN  /\ str_lower(AppendedTags[j]) \notin GENERIC_TAGS
                      /\ ~InList(str_lower(AppendedTags[j]), LowerAll(before))

\* C11 failing case: "Ai summit" with max_terms = 1 has one title term, so the
\* count has reached max_terms before the tag loop; the tag "Ai" is appended
\* all the same, and the entity "Ai" is then found among the terms and left out
\* of the query.
C11_Witness ==
    /\ QueryReturned /\ event.title = "Ai summit" /\ max_terms = 1
    /\ event.tags = <<"Ai">>
    /\ KeptTitleTerms = <<"summit">> /\ AppendedTags = <<"Ai">>
    /\ inserted = <<>> /\ query = "summit"

\* C12 (entity uniqueness): the collected term list holds each quoted entity
\* at most once, and so does the part of it that forms the query, also when
\* the same capitalized run occurs several times in the title.
C12_EntityUniqueness ==
    QueryReturned =>
        \A i \in 1..Len(terms) : \A j \in 1..Len(terms) :
            (i < j /\ IsQuoted(terms[i])) => terms[i] # terms[j]

\* C12 failing case: "Bitcoin" occurs twice in the title; with the default
\* max_terms both occurrences are inserted and both reach the query.
C12_Witness ==
    /\ QueryReturned /\ max_terms = DEFAULT_MAX_TERMS
    /\ event.title = "Bitcoin above 100k by December: Bitcoin ETF"
    /\ named_entities = <<"Bitcoin", "December", "Bitcoin">>
    /\ inserted = named_entities
    /\ query = "\"Bitcoin\" \"December\" \"Bitcoin\" bitcoin above 100k december bitcoin"

\* C13 (entity insertion cap): when the title terms and accepted tags already
\* number max_terms no entity is inserted; after the entity step the collected
\* list holds at most max_terms entries; and every title term or tag that was
\* among the first max_terms before the entity step is still among the first
\* max_terms, the part that forms the query.  Stated for max_terms >= 1, where
\* it already fails.
C13_EntityCap ==
    (QueryReturned /\ max_terms >= 1) =>
        LET before == KeptTitleTerms \o AppendedTags
        IN  /\ Len(before) = max_terms => inserted = <<>>
            /\ Len(terms) <= max_terms
            /\ \A k \in 1..Len(before) :
                  k <= max_terms => Len(inserted) + k <= max_terms

\* C13 failing case: the four title terms of "Elon Musk buys Twitter" number
\* max_terms = 4; the entity "Elon Musk" is inserted all the same, the list
\* holds five entries and the title term "twitter" is cut from the query.
C13_Witness ==
    /\ QueryReturned /\ event.title = "Elon Musk buys Twitter" /\ max_terms = 4
    /\ event.tags = <<>>
    /\ KeptTitleTerms = <<"elon", "musk", "buys", "twitter">>
    /\ inserted = <<"Elon Musk">> /\ Len(terms) = 5
    /\ query = "\"Elon Musk\" elon musk buys"

-----------------------------------------------------------------------------
(* score_article applied to bounded articles, events and query terms.       *)

\* oldest article, in days before now, and longest query_terms list
MaxAgeDays == 4
MaxQueryTerms == 2

\* published_at values: none, every tick from one tick after now back to one
\* tick beyond MaxAgeDays, and a timezone-aware one a day back
PublishedDates(n) ==
    {NoDate, DateTime(n - timedelta(1), TRUE)}
        \cup {DateTime(n - k, FALSE) : k \in -1..(timedelta(MaxAgeDays) + 1)}

ScoreArticles(n) ==
    {[source_name |-> s, title |-> t, description |-> d, published_at |-> p] :
        s \in {"Reuters", "Some Blog", "BBC News on CNN"},
        t \in {"Elon Musk closes Twitter deal", "Fed holds rates"},
        d \in {NoStr, Str("Musk buys Twitter today")},
        p \in PublishedDates(n)}

ScoreEvents ==
    {[title |-> t, tags |-> <<>>, start_date |-> NoDate, end_date |-> NoDate] :
        t \in {"Elon Musk buys Twitter", "Will the Fed raise rates in March?",
                "Elon\fMusk buys Twitter"}}

ScoreTerms == {"twitter", "\"Twitter\"", "Musk\""}

QueryTermLists == UNION {[1..n -> ScoreTerms] : n \in 0..MaxQueryTerms}

InitScore ==
    /\ pc = "score_article"
    /\ now = Epoch
    /\ article \in ScoreArticles(now)
    /\ event \in ScoreEvents
    /\ query_terms \in QueryTermLists
    /\ scored_article = NoScored
    /\ max_articles = 0 /\ min_score = 0 /\ request = NoRequest
    /\ search_calls = 0 /\ error = "None" /\ logged = FALSE
    /\ articles = <<>> /\ scored = <<>> /\ result = <<>>
    /\ TermsIdle /\ QueryIdle /\ WindowIdle /\ NoInvocations /\ ApiIdle

ScoreArticle ==
    /\ pc = "score_article"
    /\ scored_article' = score_article(article, event, query_terms, now)
    /\ pc' = "score_article:return"
    /\ UNCHANGED <<apiVars, invocations, article, event, now, termsVars, queryVars, windowVars,
                   matchVars>>

NextScore == ScoreArticle

SpecScore == InitScore /\ [][NextScore]_vars

-----------------------------------------------------------------------------
(* Properties of score_article, checked under SpecScore.                    *)

ScoreReturned == pc = "score_article:return"

HasPrefix(s, p) == Len(s) >= Len(p) /\ SubSeq(s, 1, Len(p)) = p

\* the reasons of the returned ScoredArticle that start with p
ReasonsWith(p) == SelectSeq(scored_article.match_reasons, LAMBDA r : HasPrefix(r, p))

\* term.strip('"').lower() of the i-th query term
CleanTerm(i) == str_lower(str_strip_quote(query_terms[i]))

\* the bonuses other than the term matches, read off the reasons
OtherBonus ==
    5 * Len(ReasonsWith("entity:"))
    + (IF InList("very_recent", scored_article.match_reasons) THEN 2 ELSE 0)
    + (IF InList("recent", scored_article.match_reasons) THEN 1 ELSE 0)
    + (IF InList("quality_source", scored_article.match_reasons) THEN 1 ELSE 0)

\* what the term rules give for the counts tc (title) and dc (description)
TermRules(tc, dc) ==
    /\ ReasonsWith("title_match:")
          = (IF tc > 0 THEN <<"title_match:" \o ToString(tc)>> ELSE <<>>)
    /\ ReasonsWith("desc_match:")
          = (IF dc > 0 THEN <<"desc_match:" \o ToString(dc)>> ELSE <<>>)
    /\ scored_article.score = 3 * tc + dc + OtherBonus

\* C14 (term-match scoring) as claimed: title_match:<count> is emitted at most
\* once, count being the number of distinct query terms (quotes stripped,
\* lower-cased) that are substrings of the lower-cased title, and 3 x count is
\* added to the score; likewise desc_match with weight 1; duplicate entries of
\* query_terms do not raise the count.
C14_Original ==
    ScoreReturned =>
        LET distinct == {CleanTerm(i) : i \in 1..Len(query_terms)}
            tc == Cardinality({t \in distinct : Contains(str_lower(article.title), t)})
            dc == Cardinality({t \in distinct :
                                 Contains(str_lower(OrEmpty(article.description)), t)})
        IN  TermRules(tc, dc)

\* C14 (term-match scoring), amended: the count is the number of entries of
\* query_terms (an entry that occurs twice counts twice, and so do a quoted and
\* an unquoted entry of the same word) whose quote-stripped, lower-cased form
\* is a substring of the lower-cased title; title_match:<count> is emitted at
\* most once and 3 x count added; likewise desc_match with weight 1.
C14_TermMatch ==
    ScoreReturned =>
        LET tc == Cardinality({i \in 1..Len(query_terms) :
                                 Contains(str_lower(article.title), CleanTerm(i))})
            dc == Cardinality({i \in 1..Len(query_terms) :
                                 Contains(str_lower(OrEmpty(article.description)),
                                          CleanTerm(i))})
        IN  TermRules(tc, dc)

\* C14 witness: the quoted and the unquoted "twitter" both match the title and
\* the description, and each is counted.
C14_Witness ==
    /\ ScoreReturned /\ query_terms = <<"\"Twitter\"", "twitter">>
    /\ article.title = "Elon Musk closes Twitter deal"
    /\ article.description = Str("Musk buys Twitter today")
    /\ SubSeq(scored_article.match_reasons, 1, 2) = <<"title_match:2", "desc_match:2">>

\* now - published_at, in ticks
Age == now - article.published_at.ts

\* the number of query_terms entries found in the title / in the description
TitleCount ==
    LET title == str_lower(article.title)
    IN  Cardinality({i \in 1..Len(query_terms) : Contains(title, CleanTerm(i))})
DescCount ==
    LET desc == str_lower(OrEmpty(article.description))
    IN  Cardinality({i \in 1..Len(query_terms) : Contains(desc, CleanTerm(i))})

\* what the recency rule added to the score
RecencyBonus ==
    scored_article.score
    - (3 * TitleCount + DescCount + 5 * Len(ReasonsWith("entity:"))
       + (IF InList("quality_source", scored_article.match_reasons) THEN 1 ELSE 0))

IsVeryRecent ==
    /\ InList("very_recent", scored_article.match_reasons)
    /\ ~InList("recent", scored_article.match_reasons)
    /\ RecencyBonus = 2
IsRecent ==
    /\ InList("recent", scored_article.match_reasons)
    /\ ~InList("very_recent", scored_article.match_reasons)
    /\ RecencyBonus = 1
NoRecency ==
    /\ ~InList("recent", scored_article.match_reasons)
    /\ ~InList("very_recent", scored_article.match_reasons)
    /\ RecencyBonus = 0

\* C15 (recency thresholds) as claimed: with published_at present, an age
\* (now - published_at) of at most 1 day gives +2 and very_recent; otherwise an
\* age of at most 3 days gives +1 and recent, so every age strictly between 1
\* and 3 days gives recent; an age above 3 days gives neither; an article with
\* no published_at gets neither.
C15_Original ==
    ScoreReturned =>
        IF ~article.published_at.has THEN NoRecency
        ELSE IF Age <= timedelta(1) THEN IsVeryRecent
        ELSE IF Age <= timedelta(3) THEN IsRecent
        ELSE NoRecency

\* C15 (recency thresholds), amended: the age is counted in whole elapsed days
\* (rounded down): fewer than 2 days give +2 and very_recent, 2 days up to
\* fewer than 4 days give +1 and recent, 4 days or more give neither; a
\* published_at after now counts as very recent; an article with no
\* published_at gets neither.
C15_RecencyWholeDays ==
    ScoreReturned =>
        IF ~article.published_at.has THEN NoRecency
        ELSE IF Age < timedelta(2) THEN IsVeryRecent
        ELSE IF Age < timedelta(4) THEN IsRecent
        ELSE NoRecency

\* C15 witness: an article between one and two days old was scored very recent.
C15_Witness ==
    /\ ScoreReturned /\ article.published_at.has
    /\ Age > timedelta(1) /\ Age < timedelta(2)
    /\ IsVeryRecent

\* C16 (recency boundary points): an article published exactly 1 day before
\* now gets very_recent and +2, one published exactly 2 days before now gets
\* recent and +1, one published exactly 4 days before now gets neither.
C16_RecencyBoundary ==
    (ScoreReturned /\ article.published_at.has) =>
        /\ Age = timedelta(1) => IsVeryRecent
        /\ Age = timedelta(2) => IsRecent
        /\ Age = timedelta(4) => NoRecency

\* C16 witness: an article exactly 2 days old, stamped recent, with score 1
\* from nothing but the recency rule.
C16_Witness ==
    /\ ScoreReturned /\ article.published_at.has /\ Age = timedelta(2)
    /\ scored_article.match_reasons = <<"recent">> /\ scored_article.score = 1

\* the bonuses other than the entity rule, read off the inputs and the reasons
NonEntityScore ==
    3 * TitleCount + DescCount
    + (IF InList("very_recent", scored_article.match_reasons) THEN 2 ELSE 0)
    + (IF InList("recent", scored_article.match_reasons) THEN 1 ELSE 0)
    + (IF InList("quality_source", scored_article.match_reasons) THEN 1 ELSE 0)

\* the entities of the event title found in the lower-cased article title, in
\* detection order: a function of the event and the article alone
FoundEntities ==
    LET title == str_lower(article.title)
    IN  SelectSeq(re_findall_entities(event.title),
                  LAMBDA e : Contains(title, str_lower(e)))

\* C17 (named-entity scoring): the entity tags are entity:<text>, one for each
\* entity detected in event.title whose lower-cased form is a substring of the
\* lower-cased article title, and none for the others; each adds 5 to the
\* score; which tags there are depends on the event and the article only, not
\* on query_terms.
C17_EntityScoring ==
    ScoreReturned =>
        LET found == FoundEntities
        IN  /\ ReasonsWith("entity:") = [i \in 1..Len(found) |-> "entity:" \o found[i]]
            /\ scored_article.score = NonEntityScore + 5 * Len(found)

\* C17 witness: with no query term at all, both entities of "Elon Musk buys
\* Twitter" are found in the article title and give 10 points.
C17_Witness ==
    /\ ScoreReturned /\ query_terms = <<>>
    /\ event.title = "Elon Musk buys Twitter"
    /\ article.title = "Elon Musk closes Twitter deal"
    /\ scored_article.match_reasons = <<"entity:Elon Musk", "entity:Twitter">>
    /\ scored_article.score = 10

\* the rule a reason belongs to: 1 title, 2 description, 3 entity, 4 recency,
\* 5 source quality; 0 for a text no rule emits
RuleOf(r) ==
    IF HasPrefix(r, "title_match:") THEN 1
    ELSE IF HasPrefix(r, "desc_match:") THEN 2
    ELSE IF HasPrefix(r, "entity:") THEN 3
    ELSE IF r \in {"very_recent", "recent"} THEN 4
    ELSE IF r = "quality_source" THEN 5
    ELSE 0

\* the number of reasons that belong to rule k
ReasonsOfRule(k) ==
    Cardinality({i \in 1..Len(scored_article.match_reasons) :
                   RuleOf(scored_article.match_reasons[i]) = k})

\* C18 (reason order): every reason is the tag of a rule that fired; the tags
\* stand in the order title_match, desc_match, entity tags (in detection
\* order), very_recent or recent, quality_source, no tag of a later rule before
\* a tag of an earlier one; title_match, desc_match, the recency tag and
\* quality_source occur at most once each, quality_source also when several
\* outlet names match the source.
C18_ReasonOrder ==
    ScoreReturned =>
        LET rs == scored_article.match_reasons
            ents == re_findall_entities(event.title)
            title == str_lower(article.title)
        IN  /\ \A i \in 1..Len(rs) : RuleOf(rs[i]) # 0
            /\ \A i \in 1..Len(rs) : \A j \in 1..Len(rs) :
                  i < j => RuleOf(rs[i]) <= RuleOf(rs[j])
            /\ \A k \in {1, 2, 4, 5} : ReasonsOfRule(k) <= 1
            /\ ReasonsOfRule(1) = 1 <=> TitleCount > 0
            /\ ReasonsOfRule(2) = 1 <=> DescCount > 0
            /\ IsSubsequence(ReasonsWith("entity:"),
                             [i \in 1..Len(ents) |-> "entity:" \o ents[i]])
            /\ \A i \in 1..Len(rs) :
                  HasPrefix(rs[i], "entity:") =>
                      Contains(title, str_lower(SubSeq(rs[i], 8, Len(rs[i]))))
            /\ ReasonsOfRule(4) = 1 =>
                  (article.published_at.has /\ Age < timedelta(4))
            /\ ReasonsOfRule(5) = 1 <=>
                  \E qs \in quality_sources :
                      Contains(str_lower(article.source_name), qs)

\* C18 witness: every rule fired for an article whose source names two outlets
\* (BBC and CNN); the reasons stand in rule order with one quality_source.
C18_Witness ==
    /\ ScoreReturned /\ article.source_name = "BBC News on CNN"
    /\ scored_article.match_reasons
          = <<"title_match:1", "desc_match:1", "entity:Elon Musk", "entity:Twitter",
              "very_recent", "quality_source">>

-----------------------------------------------------------------------------
(* Concurrent invocations of match_news_to_event, one per request of the    *)
(* HTTP layer.  Each invocation has its own frame of locals; what they      *)
(* share is the clock and the module-level sets STOP_WORDS and GENERIC_TAGS, *)
(* which are only read.  The steps of different invocations interleave: the *)
(* call of the news search, its return, every call of score_article (which  *)
(* reads the clock), and the filter, sort and slice of lines 280-284.  The   *)
(* clock advances at some point of the run.                                 *)

\* number of concurrent invocations
MaxInvocations == 2

Invocations == 1..MaxInvocations

\* the events the invocations are called with, in turn
ConcEvents == <<
    [title |-> "Elon Musk buys Twitter", tags |-> <<>>,
     start_date |-> NoDate, end_date |-> NoDate],
    [title |-> "Fed raises rates", tags |-> <<>>,
     start_date |-> NoDate, end_date |-> NoDate] >>

ConcEventOf(i) == ConcEvents[((i - 1) % Len(ConcEvents)) + 1]

\* an article one tick short of two days old when the run starts: a call of
\* score_article before the clock advances finds it 1 day old, a later one 2
ConcArticle ==
    [source_name |-> "Reuters", title |-> "Musk buys Twitter",
     description |-> NoStr,
     published_at |-> DateTime(Epoch - timedelta(2) + 1, FALSE)]

\* what a search comes back with: nothing, the article, the article twice
ConcFetchResults == {<<>>, <<ConcArticle>>, <<ConcArticle, ConcArticle>>}

\* a failure the except clause of line 273 catches, and one it lets through
ConcFailures == {"TimeoutError", "KeyboardInterrupt"}

\* the frame of an invocation that was called with ev, ma, ms and has not run;
\* nows lists the clock readings of its score_article calls
NewFrame(ev, ma, ms) ==
    [pc |-> "match_news_to_event", event |-> ev, max_articles |-> ma,
     min_score |-> ms, query |-> "", query_terms |-> <<>>, request |-> NoRequest,
     error |-> "None", articles |-> <<>>, nows |-> <<>>, scored |-> <<>>,
     result |-> <<>>]

InitConcurrent ==
    /\ pc = "concurrent"
    /\ now = Epoch
    /\ invocations = [i \in Invocations |->
                         NewFrame(ConcEventOf(i), MaxArticles, DEFAULT_MIN_SCORE)]
    /\ event = NoEvent
    /\ TermsIdle /\ QueryIdle /\ WindowIdle /\ MatchIdle /\ ScoreIdle /\ ApiIdle

\* faulty variant: query_terms kept in one module-level variable, which another
\* invocation that has passed its own line 258 has overwritten
QueryTermsShared(frames, i) ==
    LET others == {j \in DOMAIN frames :
                     j # i /\ frames[j].pc # "match_news_to_event"}
    IN  IF others = {} THEN frames[i].query_terms
        ELSE frames[CHOOSE j \in others : TRUE].query_terms

\* the local query_terms that invocation i passes to score_article
QueryTermsOf(frames, i) == frames[i].query_terms

concUnchanged == <<apiVars, pc, event, termsVars, queryVars, windowVars, matchVars,
                   scoreVars>>

\* lines 256-272 of invocation i
ConcMatchCall(i) ==
    /\ invocations[i].pc = "match_news_to_event"
    /\ LET f == invocations[i]
           q == build_news_query(f.event, DEFAULT_MAX_TERMS)
           w == get_time_window(f.event, now, DEFAULT_DAYS_BACK, DEFAULT_BUFFER_DAYS)
       IN  invocations' = [invocations EXCEPT ![i] =
               [f EXCEPT !.pc = "search_everything", !.query = q,
                         !.query_terms = str_split(q),
                         !.request = SearchParams(q, w[1], w[2], "relevancy",
                                                  PAGE_SIZE)]]
    /\ UNCHANGED <<now, concUnchanged>>

\* the search of invocation i returns arts: line 266
ConcSearchReturns(i, arts) ==
    /\ invocations[i].pc = "search_everything"
    /\ invocations' = [invocations EXCEPT ![i] =
           [invocations[i] EXCEPT !.pc = "score_article", !.articles = arts]]
    /\ UNCHANGED <<now, concUnchanged>>

\* line 278, one element of the list: invocation i calls score_article for its
\* next article, and the call reads the clock
ConcScoreArticle(i) ==
    /\ invocations[i].pc = "score_article"
    /\ Len(invocations[i].scored) < Len(invocations[i].articles)
    /\ LET f == invocations[i]
           k == Len(f.scored) + 1
           sa == score_article(f.articles[k], f.event, QueryTermsOf(invocations, i), now)
       IN  invocations' = [invocations EXCEPT ![i] =
               [f EXCEPT !.nows = Append(@, now),
                         !.scored = Append(@, [article |-> sa.article,
                                               score |-> sa.score,
                                               match_reasons |-> sa.match_reasons,
                                               pos |-> k])]]
    /\ UNCHANGED <<now, concUnchanged>>

\* lines 280-284 of invocation i, every article scored
ConcReturn(i) ==
    /\ invocations[i].pc = "score_article"
    /\ Len(invocations[i].scored) = Len(invocations[i].articles)
    /\ LET f == invocations[i]
       IN  invocations' = [invocations EXCEPT ![i] =
               [f EXCEPT !.pc = "match_news_to_event:return",
                         !.result = RankScored(f.scored, f.min_score, f.max_articles)]]
    /\ UNCHANGED <<now, concUnchanged>>

\* the search of invocation i raises kind: lines 273-275, or the exception
\* leaves the function
ConcSearchRaises(i, kind) ==
    /\ invocations[i].pc = "search_everything"
    /\ invocations' = [invocations EXCEPT ![i] =
           IF Catches(kind)
           THEN [invocations[i] EXCEPT !.pc = "match_news_to_event:return",
                                       !.error = kind, !.result = <<>>]
           ELSE [invocations[i] EXCEPT !.pc = "match_news_to_event:raise",
                                       !.error = kind]]
    /\ UNCHANGED <<now, concUnchanged>>

\* the clock advances by a tick
ClockTick ==
    /\ pc = "concurrent"
    /\ now = Epoch
    /\ now' = now + 1
    /\ UNCHANGED <<invocations, concUnchanged>>

NextConcurrent ==
    \/ ClockTick
    \/ \E i \in Invocations :
          \/ ConcMatchCall(i)
          \/ \E arts \in ConcFetchResults : ConcSearchReturns(i, arts)
          \/ ConcScoreArticle(i)
          \/ ConcReturn(i)
          \/ \E kind \in ConcFailures : ConcSearchRaises(i, kind)

SpecConcurrent == InitConcurrent /\ [][NextConcurrent]_vars

-----------------------------------------------------------------------------
(* Properties of concurrent invocations, checked under SpecConcurrent.      *)

\* what match_news_to_event returns when it runs alone with the event and
\* arguments of frame f, the search outcome f records, and a clock that shows
\* each call of score_article what f.nows lists
AloneResult(f) ==
    IF f.error # "None" THEN <<>>
    ELSE RankScored(ScoreAll(f.articles, f.event,
                             str_split(build_news_query(f.event, DEFAULT_MAX_TERMS)),
                             f.nows),
                    f.min_score, f.max_articles)

\* the calls of score_article made so far, by any invocation: what went in
\* (article, event, query_terms, the clock reading) and what came out
ScoreCalls ==
    UNION {{[article |-> invocations[i].articles[k],
             event |-> invocations[i].event,
             query_terms |-> invocations[i].query_terms,
             now |-> invocations[i].nows[k],
             score |-> invocations[i].scored[k].score,
             match_reasons |-> invocations[i].scored[k].match_reasons] :
               k \in 1..Len(invocations[i].scored)} : i \in Invocations}

SameArguments(c, d) ==
    /\ c.article = d.article /\ c.event = d.event
    /\ c.query_terms = d.query_terms /\ c.now = d.now

    /\ invocations[1].result[1].match_reasons = invocations[1].result[2].match_reasons
    /\ invocations[2].nows = <<Epoch, Epoch + 1>>
    /\ invocations[2].scored[1].match_reasons = <<"very_recent", "quality_source">>
    /\ invocations[2].scored[2].match_reasons = <<"recent", "quality_source">>

-----------------------------------------------------------------------------
(* Top-k completeness of match_news_to_event, checked under Spec.           *)

Fetched == Returned /\ error = "None"

\* scored[j] stands before scored[i] in the stable descending order
Before(j, i) ==
    \/ scored[j].score > scored[i].score
    \/ scored[j].score = scored[i].score /\ j < i

\* the place of the qualifying element i in the stable descending order of
\* the qualifying elements
Place(i) == 1 + Cardinality({j \in Qualifying : Before(j, i)})

\* result is the first k entries of that order, and what the claim lists of it
TopK(k) ==
    /\ Len(result) = k
    /\ \A i \in Qualifying : Place(i) <= k => result[Place(i)] = scored[i]
    /\ \A r \in 1..Len(result) :
          /\ result[r].pos \in 1..Len(articles)
          /\ result[r].article = articles[result[r].pos]
    /\ \A r, s \in 1..Len(result) : r # s => result[r].pos # result[s].pos
    /\ \A i \in Qualifying :
          (\A r \in 1..Len(result) : result[r].pos # i) =>
              \A r \in 1..Len(result) : scored[i].score <= result[r].score
    /\ Len(result) < max_articles =>
          \A i \in Qualifying : \E r \in 1..Len(result) : result[r].pos = i
    /\ (articles = <<>> \/ Qualifying = {}) => result = <<>>

\* C20 (top-k completeness) as claimed: after a successful fetch the result is
\* exactly the first max_articles entries (all when there are fewer, none for
\* a max_articles below 1) of the stable descending order of the fetched
\* articles that clear min_score: every entry is a fetched article, none
\* occurs more often than fetched, no omitted qualifying article scores higher
\* than a returned one, fewer than max_articles entries means every qualifying
\* article is returned, and the result is empty when nothing was fetched or
\* nothing qualifies.
C20_Original ==
    Fetched => TopK(Max(0, Min(max_articles, Cardinality(Qualifying))))

\* C20 (top-k completeness), amended: the same for every max_articles >= 0.
C20_TopK ==
    (Fetched /\ max_articles >= 0) =>
        TopK(Min(max_articles, Cardinality(Qualifying)))

\* C20 witness: two fetched articles cleared the floor, max_articles was 1, and
\* the one returned is the higher-scoring one although it was fetched later.
C20_Witness ==
    /\ Fetched /\ max_articles = 1 /\ Cardinality(Qualifying) >= 2
    /\ Len(result) = 1
    /\ \E i \in Qualifying :
          i < result[1].pos /\ scored[i].score < result[1].score

-----------------------------------------------------------------------------
(* The time window and its use: get_time_window with any arguments, and     *)
(* match_news_to_event, which calls it with the defaults and hands the      *)
(* window to the news search.  The search returns nothing or times out.     *)

WindowEvents ==
    {[title |-> "", tags |-> <<>>, start_date |-> s, end_date |-> e] :
        s \in EventDates(Epoch, 1, MaxDaysAfter),
        e \in EventDates(Epoch, 0, MaxDaysAfter)}

InitMatchWindow ==
    /\ pc = "match_news_to_event"
    /\ event \in WindowEvents
    /\ max_articles = MaxArticles /\ min_score = DEFAULT_MIN_SCORE
    /\ now = Epoch
    /\ query = "" /\ query_terms = <<>>
    /\ from_date = NoDate /\ to_date = NoDate
    /\ request = NoRequest /\ search_calls = 0 /\ error = "None" /\ logged = FALSE
    /\ articles = <<>> /\ scored = <<>> /\ result = <<>>
    /\ max_terms = DEFAULT_MAX_TERMS /\ title_terms = <<>> /\ named_entities = <<>>
    /\ inserted = <<>> /\ terms = <<>>
    /\ default_days_back = DEFAULT_DAYS_BACK /\ buffer_days = DEFAULT_BUFFER_DAYS
    /\ TermsIdle /\ ScoreIdle /\ NoInvocations /\ ApiIdle

InitWindowUse == InitWindow \/ InitMatchWindow

NextWindowUse ==
    \/ GetTimeWindow
    \/ MatchCall
    \/ SearchReturns(<<>>, <<>>)
    \/ SearchRaises("TimeoutError")

SpecWindowUse == InitWindowUse /\ [][NextWindowUse]_vars

-----------------------------------------------------------------------------
(* Properties of the window and its use, checked under SpecWindowUse.       *)

\* the window has been computed: get_time_window returned, or
\* match_news_to_event is past its call of the search
WindowComputed ==
    pc \in {"get_time_window:return", "search_everything", "match_news_to_event:return"}

Searched == pc \in {"search_everything", "match_news_to_event:return"}

\* C21 (inverted window): get_time_window makes no from_date <= to_date check:
\* when start_date - buffer_days is later than the to_date it computes, in
\* particular when start_date is more than buffer_days + 1 day after now, it
\* returns that from_date, which is later than to_date; match_news_to_event
\* hands the window it got to the search as it is, whose from day is then not
\* before its to day.
C21_InvertedWindow ==
    WindowComputed =>
        LET buffered == WallClock(event.start_date) - timedelta(buffer_days)
        IN  /\ (event.start_date.has /\ buffered > to_date.ts) =>
                  (from_date.ts = buffered /\ from_date.ts > to_date.ts)
            /\ (/\ event.start_date.has
                /\ WallClock(event.start_date) > now + timedelta(buffer_days + 1)) =>
                  from_date.ts > to_date.ts
            /\ Searched =>
                  /\ <<from_date, to_date>>
                        = get_time_window(event, now, DEFAULT_DAYS_BACK,
                                          DEFAULT_BUFFER_DAYS)
                  /\ request.from = DayOf(from_date) /\ request.to = DayOf(to_date)
                  /\ from_date.ts > to_date.ts => request.from >= request.to

\* C21 witness: an event starting 3 days from now; match_news_to_event called
\* the search with a window that starts a day from now and ends now.
C21_Witness ==
    /\ Searched /\ search_calls = 1
    /\ event.start_date = DateTime(now + timedelta(3), TRUE)
    /\ ~event.end_date.has
    /\ from_date.ts = now + timedelta(1) /\ to_date.ts = now
    /\ request.from > request.to

-----------------------------------------------------------------------------
(* match_news_to_event for events whose query holds a quoted entity of two  *)
(* words, with short fetched lists.                                         *)

\* longest list the search returns here
MaxTokenFetch == 2

TokenEvents == {
    [title |-> "Elon Musk buys Twitter", tags |-> <<"Tech", "Politics">>,
     start_date |-> NoDate, end_date |-> NoDate],
    [title |-> "Federal Reserve cuts interest rates before June meeting ends",
     tags |-> <<"Fed", "Economy">>, start_date |-> NoDate, end_date |-> NoDate],
    [title |-> "Will the Fed raise rates in March?", tags |-> <<>>,
     start_date |-> NoDate, end_date |-> NoDate],
    [title |-> "Elon \fMusk buys Twitter", tags |-> <<>>,
     start_date |-> NoDate, end_date |-> NoDate] }

TokenArticles == {
    [source_name |-> "Reuters", title |-> "Elon Musk closes Twitter deal",
     description |-> Str("Musk buys Twitter today"),
     published_at |-> NoDate],
    [source_name |-> "Some Blog", title |-> "Reserve bank says Federal budget grows",
     description |-> NoStr,
     published_at |-> NoDate] }

TokenFetchResults == UNION {[1..n -> TokenArticles] : n \in 0..MaxTokenFetch}

InitRetokenize ==
    /\ pc = "match_news_to_event"
    /\ event \in TokenEvents
    /\ max_articles \in 1..MaxArticles
    /\ min_score \in MinScores
    /\ now = Epoch
    /\ query = "" /\ query_terms = <<>>
    /\ from_date = NoDate /\ to_date = NoDate
    /\ request = NoRequest /\ search_calls = 0 /\ error = "None" /\ logged = FALSE
    /\ articles = <<>> /\ scored = <<>> /\ result = <<>>
    /\ max_terms = DEFAULT_MAX_TERMS /\ title_terms = <<>> /\ named_entities = <<>>
    /\ inserted = <<>> /\ terms = <<>>
    /\ default_days_back = DEFAULT_DAYS_BACK /\ buffer_days = DEFAULT_BUFFER_DAYS
    /\ TermsIdle /\ ScoreIdle /\ NoInvocations /\ ApiIdle

NextRetokenize ==
    \/ MatchCall
    \/ \E arts \in TokenFetchResults :
          \E nows \in ClockReadings(now, Len(arts)) : SearchReturns(arts, nows)
    \/ SearchRaises("TimeoutError")

SpecRetokenize == InitRetokenize /\ [][NextRetokenize]_vars

-----------------------------------------------------------------------------
(* Properties of the scoring terms, checked under SpecRetokenize.           *)

\* the number of words of a term: the places where a character that is no
\* whitespace is the first or follows whitespace
WordCount(t) ==
    Cardinality({i \in 1..Len(t) :
                   /\ ~InsideChar(t, i) /\ ~IsSpace(CharAt(t, i))
                   /\ i = 1 \/ IsSpace(CharBefore(t, i))})

RECURSIVE CharsFrom(_, _)
\* the characters of s from position i on
CharsFrom(s, i) ==
    IF i > Len(s) THEN <<>>
    ELSE (IF InsideChar(s, i) THEN <<>> ELSE <<CharAt(s, i)>>) \o CharsFrom(s, i + 1)

\* s without its whitespace
WithoutSpaces(s) == str_join("", SelectSeq(CharsFrom(s, 1), LAMBDA c : ~IsSpace(c)))

RECURSIVE SumWordCounts(_)
SumWordCounts(list) ==
    IF list = <<>> THEN 0 ELSE WordCount(list[1]) + SumWordCounts(Tail(list))

\* the terms build_news_query joined into the query
QueryTermsBuilt ==
    SliceTo(CollectTerms(event, DEFAULT_MAX_TERMS).terms, DEFAULT_MAX_TERMS)

\* the number in the title_match tag of a scored article, 0 without the tag
TitleMatchCount(sa) ==
    LET tagged == {n \in 1..Len(query_terms) :
                     InList("title_match:" \o ToString(n), sa.match_reasons)}
    IN  IF tagged = {} THEN 0 ELSE CHOOSE n \in tagged : TRUE

\* C22 (re-tokenization): the terms match_news_to_event scores with are the
\* whitespace-delimited tokens of the query: none is empty or contains
\* whitespace, together they are the query without its whitespace, and a term of
\* k words contributes k of them, so a quoted entity of several words is never
\* one of them, with or without its quotes; each article's title_match count
\* is the number of these tokens found in its title.
C22_Retokenization ==
    Searched =>
        /\ \A k \in 1..Len(query_terms) :
              /\ query_terms[k] # ""
              /\ \A i \in 1..Len(query_terms[k]) : ~IsSpace(CharAt(query_terms[k], i))
        /\ str_join("", query_terms) = WithoutSpaces(query)
        /\ Len(query_terms) = SumWordCounts(QueryTermsBuilt)
        /\ \A j \in 1..Len(QueryTermsBuilt) :
              (IsQuoted(QueryTermsBuilt[j]) /\ WordCount(QueryTermsBuilt[j]) > 1) =>
                  \A k \in 1..Len(query_terms) :
                      /\ query_terms[k] # QueryTermsBuilt[j]
                      /\ str_strip_quote(query_terms[k]) # Unquoted(QueryTermsBuilt[j])
        /\ \A i \in 1..Len(scored) :
              TitleMatchCount(scored[i])
                 = Cardinality({k \in 1..Len(query_terms) :
                      Contains(str_lower(scored[i].article.title),
                               str_lower(str_strip_quote(query_terms[k])))})

\* C22 witness: the query of the "Federal Reserve" event has 8 terms and 9
\* tokens, one more than max_terms; an article with "Federal" and "Reserve"
\* apart in its title matches the two halves of the quoted entity.
C22_Witness ==
    /\ Returned /\ error = "None"
    /\ Len(QueryTermsBuilt) = DEFAULT_MAX_TERMS
    /\ Len(query_terms) > DEFAULT_MAX_TERMS
    /\ InList("\"Federal", query_terms) /\ InList("Reserve\"", query_terms)
    /\ \E i \in 1..Len(scored) :
          /\ scored[i].article.title = "Reserve bank says Federal budget grows"
          /\ scored[i].match_reasons = <<"title_match:5">>

-----------------------------------------------------------------------------
(* match_news_to_event over fetched articles that share no word with the    *)
(* event and differ in age and source.                                      *)

BonusEvents == {
    [title |-> "Elon Musk buys Twitter", tags |-> <<"Tech", "Politics">>,
     start_date |-> NoDate, end_date |-> NoDate],
    [title |-> "Will the Fed raise rates in March?", tags |-> <<>>,
     start_date |-> NoDate, end_date |-> NoDate] }

BonusArticles == {
    [source_name |-> "BBC News", title |-> "Weather tomorrow",
     description |-> Str(""),
     published_at |-> DateTime(Epoch, TRUE)],
    [source_name |-> "CNN", title |-> "Markets wrap",
     description |-> NoStr,
     published_at |-> DateTime(Epoch - timedelta(3), TRUE)],
    [source_name |-> "Some Blog", title |-> "Local news",
     description |-> NoStr,
     published_at |-> DateTime(Epoch, FALSE)],
    [source_name |-> "Reuters", title |-> "Sports roundup",
     description |-> NoStr,
     published_at |-> NoDate],
    [source_name |-> "Some Blog", title |-> "Old story",
     description |-> NoStr,
     published_at |-> DateTime(Epoch - timedelta(2), FALSE)],
    [source_name |-> "Unknown", title |-> "Twitter",
     description |-> NoStr,
     published_at |-> NoDate] }

BonusFetchResults == UNION {[1..n -> BonusArticles] : n \in 0..MaxTokenFetch}

InitBonus ==
    /\ pc = "match_news_to_event"
    /\ event \in BonusEvents
    /\ max_articles \in 1..MaxArticles
    /\ min_score \in MinScores
    /\ now = Epoch
    /\ query = "" /\ query_terms = <<>>
    /\ from_date = NoDate /\ to_date = NoDate
    /\ request = NoRequest /\ search_calls = 0 /\ error = "None" /\ logged = FALSE
    /\ articles = <<>> /\ scored = <<>> /\ result = <<>>
    /\ max_terms = DEFAULT_MAX_TERMS /\ title_terms = <<>> /\ named_entities = <<>>
    /\ inserted = <<>> /\ terms = <<>>
    /\ default_days_back = DEFAULT_DAYS_BACK /\ buffer_days = DEFAULT_BUFFER_DAYS
    /\ TermsIdle /\ ScoreIdle /\ NoInvocations /\ ApiIdle

NextBonus ==
    \/ MatchCall
    \/ \E arts \in BonusFetchResults :
          \E nows \in ClockReadings(now, Len(arts)) : SearchReturns(arts, nows)
    \/ SearchRaises("TimeoutError")

SpecBonus == InitBonus /\ [][NextBonus]_vars

-----------------------------------------------------------------------------
(* Properties of what is returned at the default min_score, under SpecBonus. *)

\* sa carries a title_match, desc_match or entity tag
HasTextTag(sa) ==
    \E k \in 1..Len(sa.match_reasons) :
        \/ HasPrefix(sa.match_reasons[k], "title_match:")
        \/ HasPrefix(sa.match_reasons[k], "desc_match:")
        \/ HasPrefix(sa.match_reasons[k], "entity:")

\* the bonuses of sa alone reach 2: very_recent, or recent with quality_source
BonusesReachTwo(sa) ==
    \/ InList("very_recent", sa.match_reasons)
    \/ InList("recent", sa.match_reasons) /\ InList("quality_source", sa.match_reasons)

IsReturned(i) == \E j \in 1..Len(result) : result[j].pos = i

\* C23 as stated: at the default min_score every returned article has a
\* title_match, desc_match or entity tag.
C23_Original ==
    (Returned /\ min_score = DEFAULT_MIN_SCORE) =>
        \A j \in 1..Len(result) : HasTextTag(result[j])

\* C23 (textual match at the default floor, amended): at min_score 2 every
\* returned article has a title_match, desc_match or entity tag, or a
\* very_recent tag, or both recent and quality_source; an article without a
\* text tag whose bonuses are recent alone, quality_source alone or none is
\* never returned, and one whose bonuses reach 2 is returned whenever fewer
\* than max_articles articles are.
C23_TextOrBonuses ==
    (Returned /\ min_score = DEFAULT_MIN_SCORE) =>
        /\ \A j \in 1..Len(result) : HasTextTag(result[j]) \/ BonusesReachTwo(result[j])
        /\ \A i \in 1..Len(scored) :
              ~HasTextTag(scored[i]) =>
                  /\ IsReturned(i) => BonusesReachTwo(scored[i])
                  /\ (BonusesReachTwo(scored[i]) /\ Len(result) < max_articles)
                        => IsReturned(i)

\* C23 witness: at min_score 2 an article tagged only very_recent and one
\* tagged only recent and quality_source are both returned.
C23_Witness ==
    /\ Returned /\ error = "None" /\ min_score = DEFAULT_MIN_SCORE
    /\ Len(result) = 2
    /\ result[1].match_reasons = <<"very_recent">>
    /\ result[2].match_reasons = <<"recent", "quality_source">>

-----------------------------------------------------------------------------
(* The score against the reasons, checked under SpecScore.                  *)

\* the value of a decimal digit, -1 for any other character
DigitValue(c) ==
    IF \E d \in 0..9 : ToString(d) = c THEN CHOOSE d \in 0..9 : ToString(d) = c ELSE -1

RECURSIVE ParseCount(_, _)
\* the number that the decimal digits of s spell, after acc
ParseCount(s, acc) ==
    IF s = "" THEN acc
    ELSE ParseCount(SubSeq(s, 2, Len(s)), 10 * acc + DigitValue(Ch(s, 1)))

\* the count in the tag with prefix p of the returned ScoredArticle, 0 when
\* the tag is absent
TagCount(p) ==
    LET tags == ReasonsWith(p)
    IN  IF tags = <<>> THEN 0
        ELSE ParseCount(SubSeq(tags[1], Len(p) + 1, Len(tags[1])), 0)

\* C24 (score/reasons consistency): the score of every ScoredArticle that
\* score_article returns is non-negative and is 3 x the count in the
\* title_match tag (0 without the tag) + the count in the desc_match tag
\* + 5 x the number of entity tags + 2 if very_recent is a reason + 1 if recent
\* is + 1 if quality_source is; very_recent and recent are never both reasons.
C24_ScoreFromReasons ==
    ScoreReturned =>
        LET rs == scored_article.match_reasons
        IN  /\ scored_article.score >= 0
            /\ scored_article.score
                  = 3 * TagCount("title_match:") + TagCount("desc_match:")
                    + 5 * Len(ReasonsWith("entity:"))
                    + (IF InList("very_recent", rs) THEN 2 ELSE 0)
                    + (IF InList("recent", rs) THEN 1 ELSE 0)
                    + (IF InList("quality_source", rs) THEN 1 ELSE 0)
            /\ ~(InList("very_recent", rs) /\ InList("recent", rs))

\* C24 witness: an article published today, with two title matches, two
\* description matches, two entities and a quality source, scores
\* 6 + 2 + 10 + 2 + 1 = 21.
C24_Witness ==
    /\ ScoreReturned
    /\ scored_article.match_reasons
          = <<"title_match:2", "desc_match:2", "entity:Elon Musk", "entity:Twitter",
              "very_recent", "quality_source">>
    /\ scored_article.score = 21
    /\ article.published_at.has /\ Age < timedelta(1)

-----------------------------------------------------------------------------
(* AISummarizer (ai/summarizer.py).  A TLA+ string cannot hold the grave    *)
(* accent, so the character of a markdown fence is written ^ in the texts   *)
(* of the model.  A market price is a whole number of percent.              *)

SYSTEM_PROMPT ==
    "You are a financial analyst assistant that summarizes news for prediction market events.\n" \o
    "\n" \o
    "Your task:\n" \o
    "1. Analyze the provided news articles related to a prediction market event\n" \o
    "2. Generate a concise, objective summary\n" \o
    "3. Extract key points that might influence the market\n" \o
    "4. Assess the overall sentiment (bullish = event likely to happen, bearish = unlikely, neutral = unclear)\n" \o
    "5. Rate your confidence based on news quality and relevance\n" \o
    "\n" \o
    "IMPORTANT:\n" \o
    "- Be objective, don't predict outcomes\n" \o
    "- Focus on facts from the news\n" \o
    "- Note any conflicting information\n" \o
    "- Keep summary under 150 words\n" \o
    "- Return JSON format only"

\* USER_PROMPT_TEMPLATE.format(...)
FormatUserPrompt(event_title, event_description, market_price, articles_text) ==
    "Prediction Market Event:\n" \o
    "Title: " \o
    event_title \o
    "\n" \o
    "Description: " \o
    event_description \o
    "\n" \o
    "Current Market Price: " \o
    market_price \o
    "\n" \o
    "\n" \o
    "Related News Articles:\n" \o
    articles_text \o
    "\n" \o
    "\n" \o
    "Generate a summary in this JSON format:\n" \o
    "{\n" \o
    "    \"summary\": \"Brief 2-3 sentence overview of the situation\",\n" \o
    "    \"key_points\": [\"Point 1\", \"Point 2\", \"Point 3\"],\n" \o
    "    \"sentiment\": \"bullish|bearish|neutral\",\n" \o
    "    \"confidence\": \"high|medium|low\"\n" \o
    "}"

\* EventSummary(...), and None
EventSummary(event_title, summary, key_points, sentiment, confidence, sources_used) ==
    [has |-> TRUE, event_title |-> event_title, summary |-> summary,
     key_points |-> key_points, sentiment |-> sentiment, confidence |-> confidence,
     sources_used |-> sources_used]
NoSummary == [has |-> FALSE]

\* market_price: None, or a price
NoPrice == [has |-> FALSE, pct |-> 0]
Price(pct) == [has |-> TRUE, pct |-> pct]

FALLBACK_HEADLINES == 3
HEADLINE_CHARS == 80
PROMPT_ARTICLES == 5
PROMPT_DESCRIPTION_CHARS == 200
PROMPT_EVENT_CHARS == 300

\* the last position of the n-th character of s, the end of s if it has no
\* more than n characters
PrefixEnd(s, n) ==
    IF str_len(s) <= n THEN Len(s)
    ELSE CHOOSE e \in n..Len(s) :
            /\ ~InsideChar(s, e + 1)
            /\ Cardinality({j \in 1..e : ~InsideChar(s, j)}) = n

\* s[:n] of a string, n >= 0: its first n characters
str_prefix(s, n) == IF Len(s) <= n THEN s ELSE SubSeq(s, 1, PrefixEnd(s, n))

\* article.article if hasattr(article, 'article') else article
ArticleOf(x) == IF "article" \in DOMAIN x THEN x.article ELSE x

\* _fallback_summary(event_title, articles)
_fallback_summary(event_title, arts) ==
    IF arts = <<>>
    THEN EventSummary(event_title, "No news articles found.", <<>>, "neutral", "low", 0)
    ELSE LET first == SliceTo(arts, FALLBACK_HEADLINES)
             key_points ==
                 [i \in 1..Len(first) |->
                     "[" \o ArticleOf(first[i]).source_name \o "] "
                         \o str_prefix(ArticleOf(first[i]).title, HEADLINE_CHARS)]
         IN  EventSummary(event_title,
                 "Found " \o ToString(Len(arts))
                     \o " relevant news articles. AI summary unavailable (set OPENAI_API_KEY).",
                 key_points, "neutral", "low", Len(arts))

RECURSIVE ArticlesText(_, _)
\* the loop over enumerate(articles[:5], 1), from the i-th article on
ArticlesText(first, i) ==
    IF i > Len(first) THEN ""
    ELSE LET a == ArticleOf(first[i])
         IN  "\n" \o ToString(i) \o ". [" \o a.source_name \o "] " \o a.title \o "\n"
             \o (IF a.description.has /\ a.description.val # ""
                 THEN "   " \o str_prefix(a.description.val, PROMPT_DESCRIPTION_CHARS) \o "...\n"
                 ELSE "")
             \o ArticlesText(first, i + 1)

\* the messages summarize_event sends
BuildMessages(event_title, event_description, arts, market_price) ==
    LET articles_text == ArticlesText(SliceTo(arts, PROMPT_ARTICLES), 1)
        price_str == IF market_price.has /\ market_price.pct # 0
                     THEN ToString(market_price.pct) \o "% Yes" ELSE "N/A"
        user_prompt ==
            FormatUserPrompt(event_title,
                IF event_description.has /\ event_description.val # ""
                THEN str_prefix(event_description.val, PROMPT_EVENT_CHARS) ELSE "N/A",
                price_str, articles_text)
    IN  <<[role |-> "system", content |-> SYSTEM_PROMPT],
          [role |-> "user", content |-> user_prompt]>>

\* the first place of sub in s, 0 if there is none
IndexOf(s, sub) ==
    LET n == Len(sub)
        at == {i \in 1..(Len(s) - n + 1) : SubSeq(s, i, i + n - 1) = sub}
    IN  IF at = {} THEN 0 ELSE CHOOSE i \in at : \A j \in at : i <= j

\* s.split(sep)[1], for a sep that s contains: what follows the first sep, up
\* to the next one
SplitSecond(s, sep) ==
    LET rest == SubSeq(s, IndexOf(s, sep) + Len(sep), Len(s))
        nxt == IndexOf(rest, sep)
    IN  IF nxt = 0 THEN rest ELSE SubSeq(rest, 1, nxt - 1)

\* s.split(sep)[0]
SplitFirst(s, sep) ==
    LET at == IndexOf(s, sep) IN IF at = 0 THEN s ELSE SubSeq(s, 1, at - 1)

FENCE == "^^^"
FENCE_JSON == "^^^json"

\* the handling of markdown code blocks
StripFence(response) ==
    IF Contains(response, FENCE_JSON)
    THEN SplitFirst(SplitSecond(response, FENCE_JSON), FENCE)
    ELSE IF Contains(response, FENCE)
         THEN SplitFirst(SplitSecond(response, FENCE), FENCE)
         ELSE response

RECURSIVE str_lstrip(_)
str_lstrip(s) ==
    IF Len(s) > 0 /\ IsSpace(CharAt(s, 1))
    THEN str_lstrip(SubSeq(s, CharLen(s, 1) + 1, Len(s))) ELSE s

RECURSIVE str_rstrip(_)
str_rstrip(s) ==
    IF Len(s) > 0 /\ IsSpace(CharBefore(s, Len(s) + 1))
    THEN str_rstrip(SubSeq(s, 1, Len(s) - Len(CharBefore(s, Len(s) + 1)))) ELSE s

\* s.strip()
str_strip(s) == str_rstrip(str_lstrip(s))

\* json.loads of the texts the model replies with: a dict is a function from
\* its keys, any other text is no JSON document
JsonDocuments == {
    <<"{\"summary\": \"Deal closed.\", \"key_points\": [\"Musk owns Twitter\"], \"sentiment\": \"bullish\", \"confidence\": \"high\"}",
      [type |-> "dict",
       value |-> [summary |-> "Deal closed.", key_points |-> <<"Musk owns Twitter">>,
                  sentiment |-> "bullish", confidence |-> "high"]]>>,
    <<"{\"summary\": \"Deal closed.\"}",
      [type |-> "dict", value |-> [summary |-> "Deal closed."]]>>,
    <<"{}", [type |-> "dict", value |-> <<>>]>>,
    <<"[\"Deal closed.\"]", [type |-> "list", value |-> <<"Deal closed.">>]>> }

json_loads(s) ==
    IF \E d \in JsonDocuments : d[1] = s
    THEN (CHOOSE d \in JsonDocuments : d[1] = s)[2]
    ELSE [type |-> "JSONDecodeError"]

\* data.get(key, default) of a dict
DictGet(data, key, default) == IF key \in DOMAIN data THEN data[key] ELSE default

\* faulty variant: an except clause for the JSON parse only
SummarizerCatchesDecodeError(kind) == IsSubclass(kind, "JSONDecodeError")

\* except Exception as e (summarize_event)
SummarizerCatches(kind) == IsSubclass(kind, "Exception")

\* what the chat completions request comes back with: urlopen raises, or the
\* body is no JSON, or it lacks choices, or choices is empty, or the message
\* has a content (null or a text)
ReplyContents == {
    "{\"summary\": \"Deal closed.\", \"key_points\": [\"Musk owns Twitter\"], \"sentiment\": \"bullish\", \"confidence\": \"high\"}",
    "^^^json {\"summary\": \"Deal closed.\"} ^^^",
    "Here it is: ^^^ {} ^^^ Anything else?",
    "[\"Deal closed.\"]",
    "I cannot summarize this.",
    "" }

OpenAIReplies ==
    {[kind |-> k, content |-> NoStr] :
        k \in {"URLError", "HTTPError", "TimeoutError", "not_json", "no_choices",
               "empty_choices"}}
    \cup {[kind |-> "content", content |-> NoStr]}
    \cup {[kind |-> "content", content |-> Str(c)] : c \in ReplyContents}

\* _call_openai past the request: the content returned, or the exception raised
_call_openai(reply) ==
    CASE reply.kind \in {"URLError", "HTTPError", "TimeoutError", "KeyboardInterrupt"} ->
             [raised |-> reply.kind, value |-> NoStr]
      [] reply.kind = "not_json" -> [raised |-> "JSONDecodeError", value |-> NoStr]
      [] reply.kind = "no_choices" -> [raised |-> "KeyError", value |-> NoStr]
      [] reply.kind = "empty_choices" -> [raised |-> "IndexError", value |-> NoStr]
      [] reply.kind = "content" -> [raised |-> "None", value |-> reply.content]

\* the body of the try block: the summary built from the reply, or the
\* exception raised on the way
TrySummarize(event_title, arts, reply) ==
    LET called == _call_openai(reply)
        response == called.value
        data == json_loads(str_strip(StripFence(response.val)))
    IN  IF called.raised # "None" THEN [raised |-> called.raised, summary |-> NoSummary]
        ELSE IF ~response.has THEN [raised |-> "TypeError", summary |-> NoSummary]
        ELSE IF data.type = "JSONDecodeError"
             THEN [raised |-> "JSONDecodeError", summary |-> NoSummary]
        ELSE IF data.type # "dict" THEN [raised |-> "AttributeError", summary |-> NoSummary]
        ELSE [raised |-> "None",
              summary |-> EventSummary(event_title,
                              DictGet(data.value, "summary", ""),
                              DictGet(data.value, "key_points", <<>>),
                              DictGet(data.value, "sentiment", "neutral"),
                              DictGet(data.value, "confidence", "medium"),
                              Len(arts))]

\* summarize_event from the reply on: the try block and its except clause
SummarizeAfterReply(event_title, arts, reply) ==
    LET tried == TrySummarize(event_title, arts, reply)
    IN  IF tried.raised = "None"
        THEN [raised |-> "None", printed |-> "None", summary |-> tried.summary]
        ELSE IF SummarizerCatches(tried.raised)
             THEN [raised |-> "None", printed |-> tried.raised,
                   summary |-> _fallback_summary(event_title, arts)]
             ELSE [raised |-> tried.raised, printed |-> "None", summary |-> NoSummary]

\* the summary summarize_event returns when there is a key and no article
NoNewsSummary(event_title) ==
    EventSummary(event_title, "No relevant news articles found for this event.",
                 <<"No recent news coverage">>, "neutral", "low", 0)

\* longest article list handed to summarize_event
MaxSummaryArticles == 4

\* a ScoredArticle from match_news_to_event, and a bare Article whose title is
\* longer than a headline of the fallback
SummaryArticles == {
    [article |-> [source_name |-> "Reuters", title |-> "Elon Musk closes Twitter deal",
                  description |-> Str("Musk buys Twitter today"),
                  published_at |-> NoDate],
     score |-> 34,
     match_reasons |-> <<"title_match:6", "desc_match:5", "entity:Elon Musk",
                         "entity:Twitter", "quality_source">>],
    [source_name |-> "Some Blog",
     title |-> "Twitter shareholders vote to approve the sale of the company to Elon Musk after months of dispute",
     description |-> NoStr,
     published_at |-> NoDate] }

SummaryArticleLists == UNION {[1..n -> SummaryArticles] : n \in 0..MaxSummaryArticles}

NoReply == [kind |-> "none", content |-> NoStr]

\* summarize_event called on an AISummarizer with or without a key
NewSummarizer(api_key, event_title, event_description, arts, market_price) ==
    [pc |-> "summarize_event", api_key |-> api_key,
     event_title |-> event_title, event_description |-> event_description,
     articles |-> arts, market_price |-> market_price,
     messages |-> <<>>, calls |-> 0, reply |-> NoReply,
     printed |-> "None", raised |-> "None", result |-> NoSummary]

InitSummarize ==
    /\ pc = "summarizer"
    /\ now = Epoch
    /\ event = NoEvent
    /\ summarizer \in
          {NewSummarizer(k, "Elon Musk buys Twitter", d, arts, p) :
              k \in BOOLEAN, d \in {NoStr, Str("Will the deal close this year?")},
              arts \in SummaryArticleLists, p \in {NoPrice, Price(0), Price(65)}}
    /\ handler = NoHandler
    /\ TermsIdle /\ QueryIdle /\ WindowIdle /\ MatchIdle /\ ScoreIdle /\ NoInvocations

\* summarize_event up to its return or up to the request of _call_openai
SummarizeStart(s) ==
    IF ~s.api_key
    THEN [s EXCEPT !.pc = "summarize_event:return",
                   !.result = _fallback_summary(s.event_title, s.articles)]
    ELSE IF s.articles = <<>>
    THEN [s EXCEPT !.pc = "summarize_event:return",
                   !.result = NoNewsSummary(s.event_title)]
    ELSE [s EXCEPT !.pc = "_call_openai",
                   !.messages = BuildMessages(s.event_title, s.event_description,
                                              s.articles, s.market_price),
                   !.calls = s.calls + 1]

\* the request comes back with reply: the rest of _call_openai, the parse and
\* the except clause
SummarizeFinish(s, reply) ==
    LET out == SummarizeAfterReply(s.event_title, s.articles, reply)
    IN  [s EXCEPT !.pc = IF out.raised = "None" THEN "summarize_event:return"
                         ELSE "summarize_event:raise",
                  !.reply = reply, !.printed = out.printed,
                  !.raised = out.raised, !.result = out.summary]

SummarizeEvent ==
    /\ summarizer.pc = "summarize_event"
    /\ summarizer' = SummarizeStart(summarizer)
    /\ UNCHANGED <<handler, invocations, pc, event, now, termsVars, queryVars,
                   windowVars, matchVars, scoreVars>>

OpenAIReplied(reply) ==
    /\ summarizer.pc = "_call_openai"
    /\ summarizer' = SummarizeFinish(summarizer, reply)
    /\ UNCHANGED <<handler, invocations, pc, event, now, termsVars, queryVars,
                   windowVars, matchVars, scoreVars>>

NextSummarize ==
    \/ SummarizeEvent
    \/ \E reply \in OpenAIReplies : OpenAIReplied(reply)

SpecSummarize == InitSummarize /\ [][NextSummarize]_vars

-----------------------------------------------------------------------------
(* Properties of summarize_event, checked under SpecSummarize.              *)

SummaryReturned == summarizer.pc = "summarize_event:return"

\* a fallback summary for n articles: neutral, low, n sources, at most 3 key
\* points, one for each of the first articles
IsFallbackFor(r, n) ==
    /\ r.has
    /\ r.sentiment = "neutral" /\ r.confidence = "low"
    /\ r.sources_used = n
    /\ Len(r.key_points) = Min(n, 3)

\* the replies whose content holds a JSON object, and what it says
GoodReplies ==
    {[kind |-> "content", content |-> Str(c)] :
        c \in {"{\"summary\": \"Deal closed.\", \"key_points\": [\"Musk owns Twitter\"], \"sentiment\": \"bullish\", \"confidence\": \"high\"}",
               "^^^json {\"summary\": \"Deal closed.\"} ^^^",
               "Here it is: ^^^ {} ^^^ Anything else?"}}

\* C25 (summarizer fallback): summarize_event raises for no reply of the LLM
\* call; with a key and a non-empty article list, every reply that is not a
\* JSON object (the call raised, the body or the content was unusable) yields
\* the fallback summary: sentiment neutral, confidence low, sources_used the
\* number of articles passed, at most 3 key points; a JSON object yields a
\* summary that is not the fallback; without a key the fallback is returned
\* and no request was made.
C25_SummarizerFallback ==
    /\ summarizer.pc # "summarize_event:raise"
    /\ SummaryReturned =>
          LET s == summarizer
              n == Len(s.articles)
          IN  /\ (s.api_key /\ n > 0) =>
                    /\ s.calls = 1
                    /\ s.reply \notin GoodReplies =>
                          /\ IsFallbackFor(s.result, n)
                          /\ Len(s.result.key_points) <= 3
                          /\ s.printed # "None"
                    /\ s.reply \in GoodReplies =>
                          /\ s.result.has /\ s.result.sources_used = n
                          /\ s.printed = "None"
                          /\ s.result.confidence \in {"high", "medium"}
              /\ ~s.api_key =>
                    /\ s.calls = 0 /\ s.messages = <<>> /\ s.reply = NoReply
                    /\ IsFallbackFor(s.result, n)

\* C25 witness: with a key and four articles the request failed with a
\* URLError; the fallback with three headlines and sources_used 4 came back.
C25_Witness ==
    /\ SummaryReturned /\ summarizer.api_key
    /\ Len(summarizer.articles) = 4
    /\ summarizer.reply.kind = "URLError" /\ summarizer.printed = "URLError"
    /\ summarizer.calls = 1
    /\ summarizer.result.sources_used = 4
    /\ Len(summarizer.result.key_points) = 3
    /\ summarizer.result.sentiment = "neutral" /\ summarizer.result.confidence = "low"

-----------------------------------------------------------------------------
(* The route handlers GET /events and GET /events/{event_slug}              *)
(* (api/routes.py).  handler.pc is the place of the handler in its code:    *)
(* waiting for the Polymarket fetch, at the top of the loop over the events, *)
(* inside match_news_to_event, past it, inside summarize_event, or about to  *)
(* append the response.  handler.log lists what the handler did, in order.   *)

\* most events one page of GET /events holds
MaxRouteEvents == 2

RouteEvents == {
    [title |-> "Elon Musk buys Twitter", tags |-> <<"Tech", "Politics">>,
     start_date |-> NoDate, end_date |-> NoDate,
     description |-> "Will the deal close this year?",
     markets |-> <<[outcome_prices |-> <<65, 35>>]>>],
    [title |-> "Will the Fed raise rates in March?", tags |-> <<>>,
     start_date |-> NoDate, end_date |-> NoDate,
     description |-> "",
     markets |-> <<>>] }

RouteEventLists == UNION {[1..n -> RouteEvents] : n \in 0..MaxRouteEvents}

\* what the news search of one match_news_to_event call comes back with
RouteFetchResults == {
    <<>>,
    <<[source_name |-> "Reuters", title |-> "Elon Musk closes Twitter deal",
       description |-> Str("Musk buys Twitter today"),
       published_at |-> NoDate]>>,
    <<[source_name |-> "Some Blog", title |-> "Local news",
       description |-> NoStr,
       published_at |-> NoDate]>> }

RouteReplies == {
    [kind |-> "URLError", content |-> NoStr],
    [kind |-> "KeyboardInterrupt", content |-> NoStr],
    [kind |-> "content", content |-> Str("^^^json {\"summary\": \"Deal closed.\"} ^^^")] }

\* match_news_to_event(event, max_articles) for a search that raised err
\* ("None" if it returned) or returned arts, and score_article calls that read
\* nows off the clock: the list returned, or the exception that the except
\* clause of line 273 let through
MatchedNews(ev, ma, err, arts, nows) ==
    IF err = "None"
    THEN LET q == build_news_query(ev, DEFAULT_MAX_TERMS)
         IN  [raised |-> "None",
              articles |-> RankScored(ScoreAll(arts, ev, str_split(q), nows),
                                      DEFAULT_MIN_SCORE, ma)]
    ELSE IF Catches(err) THEN [raised |-> "None", articles |-> <<>>]
    ELSE [raised |-> err, articles |-> <<>>]

\* event.markets[0].outcome_prices[0] if there is one
MarketPrice(ev) ==
    IF ev.markets # <<>> /\ ev.markets[1].outcome_prices # <<>>
    THEN Price(ev.markets[1].outcome_prices[1]) ELSE NoPrice

\* event_to_response(event, articles, summary)
event_to_response(ev, arts, summary) ==
    [title |-> ev.title,
     description |-> ev.description,
     tags |-> ev.tags,
     markets |-> [m \in 1..Len(ev.markets) |-> [prices |-> ev.markets[m].outcome_prices]],
     articles |-> [k \in 1..Len(arts) |->
                      [source_name |-> arts[k].article.source_name,
                       title |-> arts[k].article.title,
                       description |-> arts[k].article.description,
                       published_at |-> arts[k].article.published_at,
                       relevance_score |-> arts[k].score]],
     summary |-> IF summary.has
                 THEN [has |-> TRUE, summary |-> summary.summary,
                       key_points |-> summary.key_points,
                       sentiment |-> summary.sentiment,
                       confidence |-> summary.confidence,
                       sources_used |-> summary.sources_used]
                 ELSE NoSummary]

\* faulty variant: the summary is asked for whenever include_summary is set
ShouldSummarizeAlways(include_summary, arts) == include_summary

\* `if include_summary and summarizer and articles` of GET /events, where
\* summarizer is an AISummarizer exactly if include_summary, and
\* `if include_summary and articles` of GET /events/{event_slug}
ShouldSummarize(include_summary, arts) == include_summary /\ arts # <<>>

NewHandler(route, include_news, include_summary, ma, api_key) ==
    [pc |-> route, route |-> route,
     include_news |-> include_news, include_summary |-> include_summary,
     max_articles |-> ma, api_key |-> api_key,
     events |-> <<>>, i |-> 0, articles |-> <<>>, summary |-> NoSummary,
     results |-> <<>>,
     log |-> <<>>, status |-> 0]

Logged(h, op, n) == [h EXCEPT !.log = Append(@, [op |-> op, i |-> h.i, n |-> n])]

\* one step of the loop over the events.  At "loop" the handler returns past
\* the last event, calls match_news_to_event if news are wanted, and goes on
\* with no article otherwise; at "matched" it calls the summarizer or goes on
\* with no summary; at "respond" the response of the event is appended.
LoopStep(h, s) ==
    CASE h.pc = "loop" ->
           IF h.i > Len(h.events)
           THEN [h |-> [h EXCEPT !.pc = "return", !.status = 200], s |-> s]
           ELSE IF h.include_news
           THEN [h |-> Logged([h EXCEPT !.pc = "match_news_to_event"], "match_call", 0),
                 s |-> s]
           ELSE [h |-> [h EXCEPT !.pc = "matched", !.articles = <<>>], s |-> s]
      [] h.pc = "matched" ->
           IF ShouldSummarize(h.include_summary, h.articles)
           THEN LET ev == h.events[h.i]
                    started == SummarizeStart(NewSummarizer(h.api_key, ev.title,
                                   Str(ev.description), h.articles, MarketPrice(ev)))
                    called == Logged(h, "summarize_call", Len(h.articles))
                IN  IF started.pc = "_call_openai"
                    THEN [h |-> [called EXCEPT !.pc = "summarize_event"], s |-> started]
                    ELSE [h |-> [Logged(called, "summarize_return", 0)
                                    EXCEPT !.pc = "respond", !.summary = started.result],
                          s |-> started]
           ELSE [h |-> [h EXCEPT !.pc = "respond", !.summary = NoSummary], s |-> s]
      [] h.pc = "respond" ->
           LET response == event_to_response(h.events[h.i], h.articles, h.summary)
           IN  [h |-> [Logged(h, "response", Len(h.articles))
                          EXCEPT !.pc = "loop", !.results = Append(@, response),
                                 !.i = @ + 1, !.articles = <<>>, !.summary = NoSummary],
                s |-> s]

InitRoutes ==
    /\ pc = "routes"
    /\ now = Epoch
    /\ event = NoEvent
    /\ summarizer = NoSummarizer
    /\ handler \in
          {NewHandler("get_events_with_news", n, s, ma, k) :
              n \in BOOLEAN, s \in BOOLEAN, ma \in 1..MaxArticles, k \in BOOLEAN}
          \cup {NewHandler("get_event_with_news", TRUE, s, ma, k) :
              s \in BOOLEAN, ma \in 1..MaxArticles, k \in BOOLEAN}
    /\ TermsIdle /\ QueryIdle /\ WindowIdle /\ MatchIdle /\ ScoreIdle /\ NoInvocations

routeUnchanged == <<invocations, pc, event, termsVars, queryVars, windowVars,
                    matchVars, scoreVars>>

\* GET /events: poly_client.get_events returns evs
GetEvents(evs) ==
    /\ handler.pc = "get_events_with_news"
    /\ handler' = [handler EXCEPT !.pc = "loop", !.events = evs, !.i = 1]
    /\ UNCHANGED <<summarizer, now, routeUnchanged>>

\* GET /events/{event_slug}: get_event_by_slug returns the event
GetEventBySlug(ev) ==
    /\ handler.pc = "get_event_with_news"
    /\ handler' = [handler EXCEPT !.pc = "loop", !.events = <<ev>>, !.i = 1]
    /\ UNCHANGED <<summarizer, now, routeUnchanged>>

\* get_event_by_slug returns None: 404
EventNotFound ==
    /\ handler.pc = "get_event_with_news"
    /\ handler' = [handler EXCEPT !.pc = "return", !.status = 404]
    /\ UNCHANGED <<summarizer, now, routeUnchanged>>

\* what the Polymarket fetch raises: a failure of urlopen, which is an
\* Exception, and two that are not
PolymarketFailures == {"URLError", "KeyboardInterrupt", "SystemExit"}

\* the handler h after kind was raised inside its try block: `except Exception`
\* (lines 184-185, 227-228) turns it into a 500, or it is no Exception and
\* leaves the handler, which makes no response
HandlerRaised(h, kind) ==
    IF Catches(kind) THEN [h EXCEPT !.pc = "return", !.status = 500]
    ELSE [h EXCEPT !.pc = "raise"]

\* the Polymarket fetch raises kind
PolymarketRaises(kind) ==
    /\ handler.pc \in {"get_events_with_news", "get_event_with_news"}
    /\ handler' = HandlerRaised(handler, kind)
    /\ UNCHANGED <<summarizer, now, routeUnchanged>>

\* the handler goes one step on in its loop
HandlerStep ==
    /\ handler.pc \in {"loop", "matched", "respond"}
    /\ handler' = LoopStep(handler, summarizer).h
    /\ summarizer' = LoopStep(handler, summarizer).s
    /\ UNCHANGED <<now, routeUnchanged>>

\* the handler h after its call of match_news_to_event ended as m says: the
\* articles are bound (line 159), or the exception passes the handler's
\* `except Exception` too and no response is made
AfterMatch(h, m) ==
    IF m.raised # "None"
    THEN HandlerRaised(Logged(h, "match_raise", 0), m.raised)
    ELSE Logged([h EXCEPT !.pc = "matched", !.articles = m.articles],
                "match_return", Len(m.articles))

\* match_news_to_event ends, its search having raised err or returned arts:
\* it returns a list, or an exception that is no Exception passes through it
\* and through the `except Exception` of the handler
NewsMatched(err, arts, nows) ==
    /\ handler.pc = "match_news_to_event"
    /\ handler' = AfterMatch(handler,
                             MatchedNews(handler.events[handler.i],
                                         handler.max_articles, err, arts, nows))
    /\ now' = ClockAfter(now, nows)
    /\ UNCHANGED <<summarizer, routeUnchanged>>

\* the request of summarize_event comes back with reply
SummaryReplied(reply) ==
    /\ handler.pc = "summarize_event"
    /\ summarizer' = SummarizeFinish(summarizer, reply)
    /\ handler' =
          IF summarizer'.raised # "None"
          THEN HandlerRaised(Logged(handler, "summarize_raise", 0), summarizer'.raised)
          ELSE [Logged(handler, "summarize_return", 0)
                   EXCEPT !.pc = "respond", !.summary = summarizer'.result]
    /\ UNCHANGED <<now, routeUnchanged>>

NextRoutes ==
    \/ \E evs \in RouteEventLists : GetEvents(evs)
    \/ \E ev \in RouteEvents : GetEventBySlug(ev)
    \/ EventNotFound
    \/ \E kind \in PolymarketFailures : PolymarketRaises(kind)
    \/ HandlerStep
    \/ \E arts \in RouteFetchResults :
          \E nows \in ClockReadings(now, Len(arts)) : NewsMatched("None", arts, nows)
    \/ \E kind \in ConcFailures : NewsMatched(kind, <<>>, <<>>)
    \/ \E reply \in RouteReplies : SummaryReplied(reply)

SpecRoutes == InitRoutes /\ [][NextRoutes]_vars

-----------------------------------------------------------------------------
(* Properties of the route handlers, checked under SpecRoutes.              *)

\* the places of the log where the handler did op for the i-th event
LogPlaces(op, i) ==
    {p \in 1..Len(handler.log) : handler.log[p].op = op /\ handler.log[p].i = i}

\* C26 (summary after match): in both routes every invocation of the
\* summarizer for an event comes after the return of match_news_to_event
\* for that event, which returned at least one article, and include_summary is
\* set; while match_news_to_event is running for an event the summarizer has
\* not been invoked for it; every response with an empty articles list (no
\* match, failed fetch, or include_news unset) has summary null.
C26_SummaryAfterMatch ==
    (handler.pc # "idle") =>
        /\ \A p \in 1..Len(handler.log) :
              handler.log[p].op = "summarize_call" =>
                  /\ handler.include_summary
                  /\ handler.log[p].n >= 1
                  /\ \E m \in LogPlaces("match_return", handler.log[p].i) :
                        m < p /\ handler.log[m].n >= 1
        /\ handler.pc = "match_news_to_event" =>
              LogPlaces("summarize_call", handler.i) = {}
        /\ handler.pc = "summarize_event" =>
              /\ summarizer.pc = "_call_openai"
              /\ summarizer.articles = handler.articles /\ handler.articles # <<>>
        /\ \A k \in 1..Len(handler.results) :
              /\ handler.results[k].articles = <<>> => ~handler.results[k].summary.has
              /\ handler.results[k].summary.has =>
                    /\ LogPlaces("summarize_call", k) # {}
                    /\ handler.results[k].summary.sources_used
                          = Len(handler.results[k].articles)
              /\ ~handler.include_summary => ~handler.results[k].summary.has

\* C26 witness: GET /events answered for two events: the news search of the
\* first failed, that of the second returned an article; the first response
\* has no article and no summary, the second has both, and the summarizer was
\* invoked once, after the second match returned.
C26_Witness ==
    /\ handler.pc = "return" /\ handler.status = 200
    /\ handler.route = "get_events_with_news"
    /\ Len(handler.results) = 2
    /\ handler.results[1].articles = <<>> /\ ~handler.results[1].summary.has
    /\ Len(handler.results[2].articles) = 1 /\ handler.results[2].summary.has
    /\ [p \in 1..Len(handler.log) |-> handler.log[p].op]
          = <<"match_call", "match_return", "response",
              "match_call", "match_return", "summarize_call", "summarize_return",
              "response">>

=============================================================================
